---- MODULE Spec2Model ----
(***************************************************************************)
(* Threat intelligence and campaign detection engine of the phishing email *)
(* analyzer: the intelligence store (campaign tracking, indicator and      *)
(* pattern upserts), the campaign alert service and the subject            *)
(* normalisation that feeds the campaign signature.                        *)
(*                                                                         *)
(* Strings are sequences of one-character strings, so that lower-casing,   *)
(* the regular-expression replacements and the truncation are computed     *)
(* character by character as the source does.  Time is counted in hours.   *)
(* A SHA-256 digest is modelled by the text it digests (no collisions).    *)
(***************************************************************************)
EXTENDS Integers, Sequences, FiniteSets, TLC

VARIABLES
    \* ---- subject normalisation (pure function, SpecNorm) ----
    subject,        \* the subject handed to normalizeSubjectForCampaign
    once,           \* normalizeSubjectForCampaign(subject), or NotYet
    twice,          \* normalizeSubjectForCampaign(once), or NotYet
    variant,        \* a second subject, related to the first
    onceVariant,    \* normalizeSubjectForCampaign(variant), or NotYet
    \* ---- campaign store and alert service (Spec) ----
    enabled,        \* CampaignAlertConfig.enabled
    campaigns,      \* table campaigns: signature -> row or NoRow
    rowLock,        \* signature -> handler whose open transaction wrote the row
    pc,             \* handler -> position in processDetection/trackCampaignDetection
    call,           \* handler -> arguments and locals of the running call
    now,            \* the clock (NOW() and Date.now()), in hours
    alerts,         \* campaign alerts handed to SES, in sending order
    tracked,        \* ghost: (domain, pattern) class -> committed detections
    seenRcpt,       \* ghost: class -> recipients (lower-cased) of committed detections
    worstRisk,      \* ghost: class -> most severe risk level of committed detections
    undelivered,    \* ghost: classes whose latest alert delivery failed
    \* ---- indicator and pattern upserts (SpecUpsert) ----
    threat_indicators,  \* table threat_indicators: <<type, hash>> -> row
    detected_patterns,  \* table detected_patterns: <<type, name>> -> row
    wpc,            \* writer -> position in upsertIndicator/upsertPattern
    wcall,          \* writer -> the query parameters of the running call
    executed,       \* ghost: the upsert statements executed, in arrival order
    \* ---- pattern detector (SpecDetect) ----
    email_analyses, \* table email_analyses, in order of created_at
    dpc,            \* position of the running detectPatterns call
    dcall,          \* arguments and locals of the running detectPatterns call
    history,        \* ghost: the patterns returned by the calls so far, in order
    detectCalls,    \* ghost: detectPatterns calls started
    \* ---- schema initialisation (SpecInit) ----
    initialized,    \* IntelligenceDatabaseService.initialized
    opc,            \* store operation -> position in initialize and after
    schemaRuns,     \* ghost: schema transactions committed
    started,        \* ghost: store operations started
    \* ---- read queries (SpecQuery) ----
    tables,         \* the queried tables, as runs of equal rows
    query,          \* the read query that ran last, with its arguments
    returnedRows,   \* the rows it returned, as runs of equal rows
    \* ---- IOC extraction (SpecExtract) ----
    extraction,     \* the email and verdict handed to extractIOCs
    extracted,      \* minConfidence -> the indicators returned, or NotYet
    \* ---- webhook delivery (SpecWebhook) ----
    webhooks,       \* WebhookService.webhooks
    delivery,       \* the deliverToWebhook calls of the running send call
    sendCall,       \* the running send* call
    nodeEnv,        \* process.env.NODE_ENV
    \* ---- SES Lambda handler (SpecHandler) ----
    hpc,            \* position of the running handler invocation
    emailEvents,    \* the email events still to process
    processingResults,  \* the results collected by the loop
    response,       \* the response returned, or NotYet
    cachedServices, \* whether initializeServices has cached the services
    \* ---- AnalysisService.analyzeEmail (SpecAnalysis) ----
    fallbackProvider,   \* whether a fallback provider is configured
    apc,            \* position of the running analyzeEmail call
    providerCalls,  \* the providers the running call has called, in order
    analysisResult, \* what analyzeEmail returned, or NotYet
    \* ---- withRetry (SpecRetry) ----
    retryOpts,      \* the merged options of the running withRetry call
    rpc,            \* position of the running withRetry call
    attemptNo,      \* the loop variable attempt
    fnCalls,        \* the outcomes of the calls of fn, in order
    sleeps,         \* after which attempts the call slept
    settled,        \* how the promise of withRetry settled
    \* ---- pool clients (SpecPool) ----
    clients,        \* caller -> the client it acquired and where it stands
    checkedOut      \* the clients out of the pool

normVars == <<subject, once, twice, variant, onceVariant>>
campVars == <<enabled, campaigns, rowLock, pc, call, now, alerts,
              tracked, seenRcpt, worstRisk, undelivered>>
upVars == <<threat_indicators, detected_patterns, wpc, wcall, executed>>
detVars == <<email_analyses, dpc, dcall, history, detectCalls>>
initVars == <<initialized, opc, schemaRuns, started>>
qVars == <<tables, query, returnedRows>>
iocVars == <<extraction, extracted>>
hookVars == <<webhooks, delivery, sendCall, nodeEnv>>
lamVars == <<hpc, emailEvents, processingResults, response, cachedServices>>
aiVars == <<fallbackProvider, apc, providerCalls, analysisResult>>
retryVars == <<retryOpts, rpc, attemptNo, fnCalls, sleeps, settled>>
poolVars == <<clients, checkedOut>>
vars == <<subject, once, twice, variant, onceVariant, enabled, campaigns, rowLock, pc, call, now,
          alerts, tracked, seenRcpt, worstRisk, undelivered,
          threat_indicators, detected_patterns, wpc, wcall, executed,
          email_analyses, dpc, dcall, history, detectCalls,
          initialized, opc, schemaRuns, started,
          tables, query, returnedRows, extraction, extracted,
          webhooks, delivery, sendCall, nodeEnv,
          hpc, emailEvents, processingResults, response, cachedServices,
          fallbackProvider, apc, providerCalls, analysisResult,
          retryOpts, rpc, attemptNo, fnCalls, sleeps, settled,
          clients, checkedOut>>

(***************************************************************************)
(* Characters and strings                                                  *)
(***************************************************************************)
NotYet == "NotYet"
NoTime == -1

UpperToLower ==
    [c \in {"R", "E", "F", "W", "D", "A", "I", "M", "X"} |->
        CASE c = "R" -> "r" [] c = "E" -> "e" [] c = "F" -> "f"
          [] c = "W" -> "w" [] c = "D" -> "d" [] c = "A" -> "a"
          [] c = "I" -> "i" [] c = "M" -> "m" [] c = "X" -> "x"]

LowerLetters == {"r", "e", "f", "w", "d", "a", "i", "m", "x", "b", "h", "n", "v"}
Digits == {"0", "1", "2", "3", "4", "5", "6", "7", "8", "9"}
Whitespace == {" ", "\t"}

\* /\w/ : letters, digits and the underscore
IsWordChar(c) ==
    c \in LowerLetters \/ c \in DOMAIN UpperToLower \/ c \in Digits \/ c = "_"

LowerChar(c) == IF c \in DOMAIN UpperToLower THEN UpperToLower[c] ELSE c

\* String.prototype.toLowerCase
ToLowerCase(s) == [i \in 1..Len(s) |-> LowerChar(s[i])]

\* the positions of s, in order
Positions(s) == [i \in 1..Len(s) |-> i]

\* does s continue with the text m at position i
MatchesAt(s, i, m) ==
    /\ i >= 1
    /\ i + Len(m) - 1 <= Len(s)
    /\ \A k \in 1..Len(m) : s[i + k - 1] = m[k]

\* position p of s lies inside an occurrence of the text m
InsideMarker(s, p, m) == \E k \in 0..(Len(m) - 1) : MatchesAt(s, p - k, m)

\* position p of s lies in the whitespace that directly follows an occurrence of m
InTrailingWhitespace(s, p, m) ==
    /\ s[p] \in Whitespace
    /\ \E e \in 1..p :
          /\ MatchesAt(s, e - Len(m), m)
          /\ \A q \in e..p : s[q] \in Whitespace

\* .replace(/<m>\s*/gi, '') on a lower-cased string.  The markers end with a
\* colon and begin with a letter, so occurrences neither overlap one another
\* nor begin inside the whitespace consumed by the preceding match: the
\* global replace removes every occurrence and the whitespace run behind it.
RemoveMarker(s, m) ==
    LET kept == SelectSeq(Positions(s),
                    LAMBDA p : ~InsideMarker(s, p, m) /\ ~InTrailingWhitespace(s, p, m))
    IN  [k \in 1..Len(kept) |-> s[kept[k]]]

\* mutant: every digit becomes #
ReplaceDigitRuns_PerDigit(s) ==
    [k \in 1..Len(s) |-> IF s[k] \in Digits THEN "#" ELSE s[k]]

\* .replace(/\d+/g, '#') : the first digit of every run becomes #, the rest go
ReplaceDigitRuns(s) ==
    LET kept == SelectSeq(Positions(s),
                    LAMBDA p : s[p] \notin Digits \/ p = 1 \/ s[p - 1] \notin Digits)
    IN  [k \in 1..Len(kept) |-> IF s[kept[k]] \in Digits THEN "#" ELSE s[kept[k]]]

\* .replace(/[^\w\s#]/g, '')
StripSpecialChars(s) ==
    SelectSeq(s, LAMBDA c : IsWordChar(c) \/ c \in Whitespace \/ c = "#")

\* .replace(/\s+/g, ' ') : the first character of every run becomes a blank
CollapseWhitespace(s) ==
    LET kept == SelectSeq(Positions(s),
                    LAMBDA p : s[p] \notin Whitespace \/ p = 1 \/ s[p - 1] \notin Whitespace)
    IN  [k \in 1..Len(kept) |-> IF s[kept[k]] \in Whitespace THEN " " ELSE s[kept[k]]]

\* String.prototype.trim
Trim(s) ==
    LET inked == {i \in 1..Len(s) : s[i] \notin Whitespace}
    IN  IF inked = {} THEN <<>>
        ELSE SubSeq(s, CHOOSE i \in inked : \A j \in inked : i <= j,
                       CHOOSE i \in inked : \A j \in inked : i >= j)

\* .substring(0, n)
Substring0(s, n) == SubSeq(s, 1, IF Len(s) < n THEN Len(s) ELSE n)

\* the length limit of a normalised subject
SubjectLimit == 100

\* IntelligenceDatabaseService.normalizeSubjectForCampaign
normalizeSubjectForCampaign(s) ==
    Substring0(
        Trim(CollapseWhitespace(StripSpecialChars(ReplaceDigitRuns(
            RemoveMarker(RemoveMarker(RemoveMarker(ToLowerCase(s),
                <<"r", "e", ":">>), <<"f", "w", ":">>), <<"f", "w", "d", ":">>))))),
        SubjectLimit)

(***************************************************************************)
(* Subjects handed to the normalisation: every string of at most           *)
(* MaxSubjectLen characters of NormAlphabet, and long subjects made of a   *)
(* run of letters that ends within PadSlack of the length limit and is     *)
(* followed by at most MaxTailLen characters.                              *)
(***************************************************************************)
MaxSubjectLen == 3
MaxTailLen == 2
PadSlack == 2

NormAlphabet == {"R", "e", ":", " ", "1", "#", "a", "!"}

StringsUpTo(n) == UNION {[1..k -> NormAlphabet] : k \in 0..n}

Pad(k) == [i \in 1..k |-> "a"]

LongSubjects ==
    {Pad(k) \o t : k \in (SubjectLimit - PadSlack)..SubjectLimit,
                   t \in StringsUpTo(MaxTailLen) \ {<<>>}}

\* the reply and forward markers as mail clients write them
Markers == {<<"R", "e", ":">>, <<"F", "W", ":">>, <<"f", "w", "d", ":">>}

\* subjects with a marker in front, inside or at the end
MarkedSubjects == {s \o m \o u : s, u \in StringsUpTo(1), m \in Markers}

NormInputs == StringsUpTo(MaxSubjectLen) \cup LongSubjects

\* long subjects that end in digits, letters and blanks
LongPairSubjects ==
    {Pad(k) \o u : k \in (SubjectLimit - PadSlack)..SubjectLimit,
                   u \in UNION {[1..n -> {"1", "a", " "}] : n \in 1..MaxTailLen}}

\* the subjects normalised side by side with a second subject
PairInputs == StringsUpTo(MaxSubjectLen) \cup MarkedSubjects \cup LongPairSubjects

\* the other case of a letter
SwapCase(c) ==
    IF c \in DOMAIN UpperToLower THEN UpperToLower[c]
    ELSE IF \E u \in DOMAIN UpperToLower : UpperToLower[u] = c
         THEN CHOOSE u \in DOMAIN UpperToLower : UpperToLower[u] = c
         ELSE c

\* a digit run written in place of another
OtherRun == <<"2", "0">>

\* the positions of s at which a second subject may differ: all of a
\* short subject, the tail of a long one
VaryPositions(s) ==
    IF Len(s) < SubjectLimit - PadSlack THEN 1..Len(s)
    ELSE {p \in 1..Len(s) : p > Len(s) - MaxTailLen}

\* the position at which the digit run around position p of s starts
RunStart(s, p) ==
    CHOOSE q \in 1..p :
        /\ \A k \in q..p : s[k] \in Digits
        /\ (q = 1 \/ s[q - 1] \notin Digits)

\* s with the letters at the positions of mask in the other case and the
\* digit runs that start at a position of mask written as OtherRun
Vary(s, mask) ==
    LET Rewritten(p) == s[p] \in Digits /\ RunStart(s, p) \in mask
        \* slot 2p-1 holds what position p becomes, slot 2p the second
        \* digit of a rewritten run
        Pos(i) == (i + 1) \div 2
        First(i) == i = 2 * Pos(i) - 1
        Emitted(i) ==
            IF First(i) THEN ~Rewritten(Pos(i)) \/ RunStart(s, Pos(i)) = Pos(i)
            ELSE Rewritten(Pos(i)) /\ RunStart(s, Pos(i)) = Pos(i)
        Char(i) ==
            IF ~First(i) THEN OtherRun[2]
            ELSE IF Rewritten(Pos(i)) THEN OtherRun[1]
            ELSE IF Pos(i) \in mask THEN SwapCase(s[Pos(i)])
            ELSE s[Pos(i)]
        kept == SelectSeq([i \in 1..(2 * Len(s)) |-> i], Emitted)
    IN  [k \in 1..Len(kept) |-> Char(kept[k])]

\* the subjects that differ from s in letter case and in the digits of
\* their digit runs only
Variants(s) == {Vary(s, mask) : mask \in SUBSET VaryPositions(s)}

\* s as a reply or a forward: a marker, with or without a blank, in front
Replies(s) == {m \o b \o s : m \in Markers, b \in {<<>>, <<" ">>}}

(***************************************************************************)
(* The campaign store and the campaign alert service.  Handlers are the    *)
(* concurrent, stateless invocations; they share the campaigns table only. *)
(***************************************************************************)
NumHandlers == 2
MaxCalls == 4

Handlers == 1..NumHandlers

\* the hours at which the clock is read
Times == {0, 4, 5, 29}

\* the emails whose detections reach the engine: sender domain, subject,
\* recipient and indicator strings ("Mx"/"mx" and "A"/"a" differ in case
\* only, "I #1" and "i #23" in case and digits only)
Email(d, s, r, i) == [senderDomain |-> d, subject |-> s, recipient |-> r, indicators |-> i]

Emails ==
    {Email(<<"M", "x">>, <<"I", " ", "#", "1">>, <<"A">>, <<"i1">>),
     Email(<<"m", "x">>, <<"i", " ", "#", "2", "3">>, <<"a">>,
           <<"i1", "i2", "i3", "i4", "i5", "i6">>),
     Email(<<"m", "x">>, <<"I", " ", "#", "1">>, <<"b">>, <<"i1">>)}

SenderDomains == {e.senderDomain : e \in Emails}
Subjects == {e.subject : e \in Emails}
RiskLevels == {"critical", "high", "medium", "low"}

Range(f) == {f[i] : i \in DOMAIN f}

\* normalizeSubjectForCampaign on the subjects of Emails
NormalizedSubject == [s \in Subjects |-> normalizeSubjectForCampaign(s)]

\* mutant: the signature digests the sender domain as given
Signature_CaseSensitive(senderDomain, normalizedSubject) ==
    senderDomain \o <<":">> \o normalizedSubject

\* the text digested into the campaign signature (index.ts:722-725)
Signature(senderDomain, normalizedSubject) ==
    ToLowerCase(senderDomain) \o <<":">> \o normalizedSubject

\* query parameter $2: senderDomain.toLowerCase()
DomainParam(senderDomain) == ToLowerCase(senderDomain)

\* mutant: the recipient is stored as given
RecipientParam_CaseSensitive(recipientEmail) == recipientEmail

\* query parameter $4: recipientEmail.toLowerCase()
RecipientParam(recipientEmail) == ToLowerCase(recipientEmail)

\* the number of sample indicators kept with a campaign
SampleLimit == 5

\* mutant: every indicator is kept
IndicatorsParam_All(indicators) == indicators

\* query parameter $6: indicators.slice(0, 5)
IndicatorsParam(indicators) == Substring0(indicators, SampleLimit)

SigSpace == {Signature(d, NormalizedSubject[s]) : d \in SenderDomains, s \in Subjects}

\* a campaign as the claims identify it: (sender domain ignoring case, normalised subject)
ClassOf(senderDomain, subj) == <<ToLowerCase(senderDomain), NormalizedSubject[subj]>>

ClassSpace == {ClassOf(d, s) : d \in SenderDomains, s \in Subjects}

\* the CASE expression that merges risk_level on conflict (index.ts:745-750)
EscalateRisk(stored, new) ==
    IF new = "critical" THEN "critical"
    ELSE IF stored = "critical" THEN "critical"
    ELSE IF new = "high" \/ stored = "high" THEN "high"
    ELSE stored

\* mutant: a detection of a known campaign starts its window again
UpsertCampaign_ResetsFirstSeen(table, c, t) ==
    IF c.sig \notin DOMAIN table
    THEN [id |-> c.sig,
          campaignSignature |-> c.sig,
          senderDomain |-> c.senderDomain,
          subjectPattern |-> c.subjectPattern,
          detectionCount |-> 1,
          uniqueRecipients |-> <<c.rcpt>>,
          riskLevel |-> c.risk,
          sampleIndicators |-> c.indicators,
          firstSeenAt |-> t,
          lastSeenAt |-> t,
          alertSentAt |-> NoTime,
          isActive |-> TRUE]
    ELSE [table[c.sig] EXCEPT
            !.detectionCount = @ + 1,
            !.uniqueRecipients =
                IF c.rcpt \in Range(@) THEN @ ELSE Append(@, c.rcpt),
            !.riskLevel = EscalateRisk(@, c.risk),
            !.firstSeenAt = t,
            !.lastSeenAt = t,
            !.isActive = TRUE]

\* mutant: a detection of a known campaign is not counted
UpsertCampaign_KeepsCount(table, c, t) ==
    IF c.sig \notin DOMAIN table
    THEN [id |-> c.sig,
          campaignSignature |-> c.sig,
          senderDomain |-> c.senderDomain,
          subjectPattern |-> c.subjectPattern,
          detectionCount |-> 1,
          uniqueRecipients |-> <<c.rcpt>>,
          riskLevel |-> c.risk,
          sampleIndicators |-> c.indicators,
          firstSeenAt |-> t,
          lastSeenAt |-> t,
          alertSentAt |-> NoTime,
          isActive |-> TRUE]
    ELSE [table[c.sig] EXCEPT
            !.uniqueRecipients =
                IF c.rcpt \in Range(@) THEN @ ELSE Append(@, c.rcpt),
            !.riskLevel = EscalateRisk(@, c.risk),
            !.lastSeenAt = t,
            !.isActive = TRUE]

\* mutant: every detection replaces the sample indicators
UpsertCampaign_ReplacesSamples(table, c, t) ==
    IF c.sig \notin DOMAIN table
    THEN [id |-> c.sig,
          campaignSignature |-> c.sig,
          senderDomain |-> c.senderDomain,
          subjectPattern |-> c.subjectPattern,
          detectionCount |-> 1,
          uniqueRecipients |-> <<c.rcpt>>,
          riskLevel |-> c.risk,
          sampleIndicators |-> c.indicators,
          firstSeenAt |-> t,
          lastSeenAt |-> t,
          alertSentAt |-> NoTime,
          isActive |-> TRUE]
    ELSE [table[c.sig] EXCEPT
            !.detectionCount = @ + 1,
            !.uniqueRecipients =
                IF c.rcpt \in Range(@) THEN @ ELSE Append(@, c.rcpt),
            !.riskLevel = EscalateRisk(@, c.risk),
            !.sampleIndicators = c.indicators,
            !.lastSeenAt = t,
            !.isActive = TRUE]

\* INSERT ... ON CONFLICT (campaign_signature) DO UPDATE ... (index.ts:733-757);
\* c holds the query parameters, t is NOW()
UpsertCampaign(table, c, t) ==
    IF c.sig \notin DOMAIN table
    THEN [id |-> c.sig,
          campaignSignature |-> c.sig,
          senderDomain |-> c.senderDomain,
          subjectPattern |-> c.subjectPattern,
          detectionCount |-> 1,
          uniqueRecipients |-> <<c.rcpt>>,
          riskLevel |-> c.risk,
          sampleIndicators |-> c.indicators,
          firstSeenAt |-> t,
          lastSeenAt |-> t,
          alertSentAt |-> NoTime,
          isActive |-> TRUE]
    ELSE [table[c.sig] EXCEPT
            !.detectionCount = @ + 1,
            !.uniqueRecipients =
                IF c.rcpt \in Range(@) THEN @ ELSE Append(@, c.rcpt),
            !.riskLevel = EscalateRisk(@, c.risk),
            !.lastSeenAt = t,
            !.isActive = TRUE]

MinDetections == 3
MinRecipients == 2
WindowHours == 4
DedupHours == 24

\* mutant: the window is open for fewer than WindowHours only
ShouldAlert_StrictWindow(detectionCount, recipientCount, hoursActive, riskLevel, alertSentAt, t) ==
    /\ detectionCount >= MinDetections
    /\ recipientCount >= MinRecipients
    /\ hoursActive < WindowHours
    /\ riskLevel \in {"high", "critical"}
    /\ (alertSentAt = NoTime \/ t - alertSentAt > DedupHours)

\* the alert decision of trackCampaignDetection (index.ts:773-778); t is Date.now()
ShouldAlert(detectionCount, recipientCount, hoursActive, riskLevel, alertSentAt, t) ==
    /\ detectionCount >= MinDetections
    /\ recipientCount >= MinRecipients
    /\ hoursActive <= WindowHours
    /\ riskLevel \in {"high", "critical"}
    /\ (alertSentAt = NoTime \/ t - alertSentAt > DedupHours)

\* the CampaignMatch built from the row the upsert returned (index.ts:759-788)
CampaignMatchOf(row, riskLevel, t) ==
    [campaignId |-> row.id,
     signature |-> row.campaignSignature,
     detectionCount |-> row.detectionCount,
     uniqueRecipientCount |-> Len(row.uniqueRecipients),
     hoursActive |-> t - row.firstSeenAt,
     shouldAlert |-> ShouldAlert(row.detectionCount, Len(row.uniqueRecipients),
                                 t - row.firstSeenAt, riskLevel, row.alertSentAt, t),
     alertSentAt |-> row.alertSentAt]

Idle == [via |-> "none"]
NoRow == [id |-> <<>>]
NoMatch == [campaignId |-> <<>>]

\* the order critical > high > medium > low
Severity(level) ==
    CASE level = "critical" -> 4 [] level = "high" -> 3
      [] level = "medium" -> 2 [] level = "low" -> 1 [] level = "none" -> 0

Worse(a, b) == IF Severity(a) >= Severity(b) THEN a ELSE b

RECURSIVE SumOver(_, _)
SumOver(f, S) ==
    IF S = {} THEN 0
    ELSE LET x == CHOOSE y \in S : TRUE IN f[x] + SumOver(f, S \ {x})

\* detections committed or on their way to the store
Detections ==
    SumOver(tracked, ClassSpace)
    + Cardinality({h \in Handlers : pc[h] \in {"upsert", "commit"}})

(***************************************************************************)
(* Indicator and pattern upserts.  Writers are the concurrent callers of   *)
(* upsertIndicator and upsertPattern; each call is one INSERT ... ON       *)
(* CONFLICT statement sent through the pool.  Confidence scores are        *)
(* counted in ten-thousandths, the scale of the DECIMAL(5,4) column.       *)
(***************************************************************************)
NumWriters == 2
MaxUpserts == 3

Writers == 1..NumWriters

\* a ThreatIndicatorRecord as a caller builds it
Indicator(type, value, confidence, severity, seen, active, expires, metadata) ==
    [indicatorType |-> type, indicatorValue |-> value, confidenceScore |-> confidence,
     severity |-> severity, timesSeen |-> seen, isActive |-> active,
     expiresAt |-> expires, metadata |-> metadata]

\* the indicators handed to upsertIndicator: the domains "Mx", "mx" and "MX"
\* differ in case only, the last indicator has their value and another type
IndicatorInputs ==
    {Indicator("domain", <<"M", "x">>, 5000, "low", 1, TRUE, NoTime, "source: url"),
     Indicator("domain", <<"m", "x">>, 9000, "medium", 1, TRUE, NoTime, "source: sender"),
     Indicator("domain", <<"m", "x">>, 5000, "high", 2, FALSE, 4, "null"),
     Indicator("domain", <<"M", "X">>, 7000, "critical", 1, TRUE, NoTime, "null"),
     Indicator("url", <<"m", "x">>, 5000, "low", 1, TRUE, NoTime, "null")}

\* a DetectedPatternRecord as a caller builds it
Pattern(type, name, criteria, count, confirmed) ==
    [patternType |-> type, patternName |-> name, patternCriteria |-> criteria,
     matchCount |-> count, isConfirmedThreat |-> confirmed]

\* the patterns handed to upsertPattern: pattern names are compared as given
PatternInputs ==
    {Pattern("domain_campaign", <<"m", "x">>, "count: 3", 3, FALSE),
     Pattern("domain_campaign", <<"m", "x">>, "count: 5", 5, TRUE),
     Pattern("domain_campaign", <<"M", "x">>, "count: 3", 3, FALSE)}

\* mutant: the hash digests the value as given
hashIndicator_CaseSensitive(type, value) == <<type, ":">> \o value

\* the text digested by hashIndicator: `${type}:${value.toLowerCase()}`
hashIndicator(type, value) == <<type, ":">> \o ToLowerCase(value)

\* the conflict target of threat_indicators: (indicator_type, indicator_hash)
IndicatorKey(q) == <<q.indicatorType, q.indicatorHash>>

\* the conflict target of detected_patterns: (pattern_type, pattern_name)
PatternKey(q) == <<q.patternType, q.patternName>>

\* GREATEST(threat_indicators.confidence_score, EXCLUDED.confidence_score)
Greatest(a, b) == IF a >= b THEN a ELSE b

\* the CASE expression that merges severity on conflict
MergeSeverity(stored, new) ==
    IF new = "critical" THEN "critical"
    ELSE IF stored = "critical" THEN "critical"
    ELSE IF new = "high" \/ stored = "high" THEN "high"
    ELSE IF new = "medium" \/ stored = "medium" THEN "medium"
    ELSE "low"

\* mutant: a new sighting sets isActive and expiresAt as the caller says
UpsertIndicatorRow_Reactivates(table, q, t) ==
    IF IndicatorKey(q) \notin DOMAIN table
    THEN [id |-> IndicatorKey(q),
          indicatorType |-> q.indicatorType,
          indicatorValue |-> q.indicatorValue,
          indicatorHash |-> q.indicatorHash,
          confidenceScore |-> q.confidenceScore,
          severity |-> q.severity,
          timesSeen |-> q.timesSeen,
          firstSeenAt |-> q.firstSeenAt,
          lastSeenAt |-> q.lastSeenAt,
          isActive |-> q.isActive,
          expiresAt |-> q.expiresAt,
          metadata |-> q.metadata]
    ELSE [table[IndicatorKey(q)] EXCEPT
            !.timesSeen = @ + 1,
            !.lastSeenAt = t,
            !.confidenceScore = Greatest(@, q.confidenceScore),
            !.severity = MergeSeverity(@, q.severity),
            !.isActive = q.isActive,
            !.expiresAt = q.expiresAt]

\* INSERT INTO threat_indicators ... ON CONFLICT (indicator_type,
\* indicator_hash) DO UPDATE ...; q holds the query parameters, t is NOW()
UpsertIndicatorRow(table, q, t) ==
    IF IndicatorKey(q) \notin DOMAIN table
    THEN [id |-> IndicatorKey(q),
          indicatorType |-> q.indicatorType,
          indicatorValue |-> q.indicatorValue,
          indicatorHash |-> q.indicatorHash,
          confidenceScore |-> q.confidenceScore,
          severity |-> q.severity,
          timesSeen |-> q.timesSeen,
          firstSeenAt |-> q.firstSeenAt,
          lastSeenAt |-> q.lastSeenAt,
          isActive |-> q.isActive,
          expiresAt |-> q.expiresAt,
          metadata |-> q.metadata]
    ELSE [table[IndicatorKey(q)] EXCEPT
            !.timesSeen = @ + 1,
            !.lastSeenAt = t,
            !.confidenceScore = Greatest(@, q.confidenceScore),
            !.severity = MergeSeverity(@, q.severity)]

\* mutant: on conflict the stored count is overwritten by the caller's
UpsertPatternRow_Overwrite(table, q, t) ==
    IF PatternKey(q) \notin DOMAIN table
    THEN [id |-> PatternKey(q),
          patternName |-> q.patternName,
          patternType |-> q.patternType,
          patternCriteria |-> q.patternCriteria,
          matchCount |-> q.matchCount,
          isConfirmedThreat |-> q.isConfirmedThreat,
          firstDetectedAt |-> q.firstDetectedAt,
          lastDetectedAt |-> q.lastDetectedAt]
    ELSE [table[PatternKey(q)] EXCEPT
            !.matchCount = q.matchCount,
            !.lastDetectedAt = t]

\* mutant: on conflict the caller's criteria and threat flag are stored
UpsertPatternRow_Refreshes(table, q, t) ==
    IF PatternKey(q) \notin DOMAIN table
    THEN [id |-> PatternKey(q),
          patternName |-> q.patternName,
          patternType |-> q.patternType,
          patternCriteria |-> q.patternCriteria,
          matchCount |-> q.matchCount,
          isConfirmedThreat |-> q.isConfirmedThreat,
          firstDetectedAt |-> q.firstDetectedAt,
          lastDetectedAt |-> q.lastDetectedAt]
    ELSE [table[PatternKey(q)] EXCEPT
            !.matchCount = @ + 1,
            !.patternCriteria = q.patternCriteria,
            !.isConfirmedThreat = q.isConfirmedThreat,
            !.lastDetectedAt = t]

\* INSERT INTO detected_patterns ... ON CONFLICT (pattern_type, pattern_name)
\* DO UPDATE ...; q holds the query parameters, t is NOW()
UpsertPatternRow(table, q, t) ==
    IF PatternKey(q) \notin DOMAIN table
    THEN [id |-> PatternKey(q),
          patternName |-> q.patternName,
          patternType |-> q.patternType,
          patternCriteria |-> q.patternCriteria,
          matchCount |-> q.matchCount,
          isConfirmedThreat |-> q.isConfirmedThreat,
          firstDetectedAt |-> q.firstDetectedAt,
          lastDetectedAt |-> q.lastDetectedAt]
    ELSE [table[PatternKey(q)] EXCEPT
            !.matchCount = @ + 1,
            !.lastDetectedAt = t]

NoCall == [op |-> "none"]

(***************************************************************************)
(* The clamps of the read queries.  An optional argument is <<>> when the   *)
(* caller leaves it out and <<v>> when it is given.                         *)
(***************************************************************************)
MathMin(a, b) == IF a <= b THEN a ELSE b
MathMax(a, b) == IF a >= b THEN a ELSE b

\* the page size of a read query when the caller names none
DefaultLimit == 100

\* the largest page a read query returns
MaxLimit == 1000

\* mutant: the limit has no ceiling
ClampLimit_NoCeiling(limit) == MathMax(1, IF limit = <<>> THEN DefaultLimit ELSE limit[1])

\* Math.min(Math.max(1, limit ?? 100), 1000)
ClampLimit(limit) ==
    MathMin(MathMax(1, IF limit = <<>> THEN DefaultLimit ELSE limit[1]), MaxLimit)

\* Math.max(0, offset ?? 0)
ClampOffset(offset) == MathMax(0, IF offset = <<>> THEN 0 ELSE offset[1])

(***************************************************************************)
(* The pattern detector (PatternDetectorService): options, inputs and the  *)
(* searches of its four detectors.  An email is given by what the          *)
(* detectors read from it: the sender domain (extractDomain), the key      *)
(* phrases of the lower-cased subject (extractSubjectKeyPhrases), whether  *)
(* an indicator mentions impersonation, and the host names of its links.   *)
(***************************************************************************)
\* DEFAULT_OPTIONS.minMatchCount
MinMatchCount == 3

\* DEFAULT_OPTIONS.lookbackHours
LookbackHours == 168

\* a pattern counted this often is stored as a confirmed threat
ConfirmedCount == 5

\* analyses stored, and detectPatterns calls started, in one behaviour
MaxAnalyses == 3
MaxDetections == 3

\* the clock readings of the detector's behaviours, in hours
DetectTimes == {0, 100, 200}

\* extractDomain found no domain
NoDomain == "none"

\* the detectors in the order detectPatterns awaits them
Detectors == <<"domain_campaign", "subject_pattern", "impersonation", "url_campaign">>

ExtractedEmail(domain, phrases, impersonation, hosts) ==
    [fromDomain |-> domain, keyPhrases |-> phrases,
     hasImpersonationIndicator |-> impersonation, urlDomains |-> hosts]

\* an email every detector applies to, one only the domain detector
\* applies to, and one no detector applies to
EmailInputs ==
    {ExtractedEmail("mx", <<"invoice">>, TRUE, <<"mx">>),
     ExtractedEmail("mx", <<>>, FALSE, <<>>),
     ExtractedEmail(NoDomain, <<>>, FALSE, <<>>)}

\* the analyses stored: phishing emails of both kinds from the domain, and
\* one the analysis found harmless
StoredInputs ==
    {<<ExtractedEmail("mx", <<"invoice">>, TRUE, <<"mx">>), TRUE>>,
     <<ExtractedEmail("mx", <<>>, FALSE, <<>>), TRUE>>,
     <<ExtractedEmail("mx", <<"invoice">>, TRUE, <<"mx">>), FALSE>>}

\* the row of email_analyses stored for email e with verdict v at time t
AnalysisRow(e, v, t) ==
    [fromDomain |-> e.fromDomain,
     phrases |-> {e.keyPhrases[i] : i \in DOMAIN e.keyPhrases},
     impersonation |-> e.hasImpersonationIndicator,
     urlDomains |-> {e.urlDomains[i] : i \in DOMAIN e.urlDomains},
     isPhishing |-> v,
     createdAt |-> t]

\* the early returns of the four detectors: nothing to search for
Applicable(d, e) ==
    CASE d = "domain_campaign" -> e.fromDomain # NoDomain
      [] d = "subject_pattern" -> e.keyPhrases # <<>>
      [] d = "impersonation" -> e.hasImpersonationIndicator
      [] d = "url_campaign" -> e.urlDomains # <<>>

\* the limit each detector hands to searchAnalyses
SearchLimit(d) ==
    CASE d = "domain_campaign" -> 100
      [] d = "subject_pattern" -> 500
      [] d = "impersonation" -> 200
      [] d = "url_campaign" -> 300

\* the fromDomain filter: only the domain detector sets it
DomainFilter(d, e) == IF d = "domain_campaign" THEN e.fromDomain ELSE NoDomain

\* the last n elements of s, latest first
LatestFirst(s, n) ==
    LET k == IF Len(s) < n THEN Len(s) ELSE n
    IN  [i \in 1..k |-> s[Len(s) + 1 - i]]

\* searchAnalyses: WHERE created_at >= fromDate AND is_phishing = true
\* [AND from_domain = fromDomain] ORDER BY created_at DESC LIMIT limit
searchAnalyses(table, fromDomain, fromDate, limit) ==
    LET Selected(a) == /\ a.createdAt >= fromDate
                       /\ a.isPhishing
                       /\ (fromDomain = NoDomain \/ a.fromDomain = fromDomain)
    IN  LatestFirst(SelectSeq(table, Selected), ClampLimit(<<limit>>))

\* the filter each detector applies to the rows the search returned
Matches(d, e, a) ==
    CASE d = "domain_campaign" -> TRUE
      [] d = "subject_pattern" -> \E i \in DOMAIN e.keyPhrases : e.keyPhrases[i] \in a.phrases
      [] d = "impersonation" -> a.impersonation
      [] d = "url_campaign" -> \E i \in DOMAIN e.urlDomains : e.urlDomains[i] \in a.urlDomains

\* the matching analyses detector d counts for email e at time t
RecentMatches(d, e, table, t) ==
    LET recent == searchAnalyses(table, DomainFilter(d, e), t - LookbackHours, SearchLimit(d))
        Matching(a) == Matches(d, e, a)
    IN  SelectSeq(recent, Matching)

\* the name under which detector d stores its pattern for email e
PatternName(d, e) ==
    CASE d = "domain_campaign" -> <<"domain_campaign_", e.fromDomain>>
      [] d = "subject_pattern" -> <<"subject_pattern_", e.keyPhrases[1]>>
      [] d = "impersonation" -> <<"impersonation_campaign">>
      [] d = "url_campaign" -> <<"url_campaign_", e.urlDomains[1]>>

\* mutant: one match fewer is enough
ReachedThreshold_OneShort(n) == n >= MinMatchCount - 1

\* the test that lets a detector store and return its pattern
ReachedThreshold(n) == n >= MinMatchCount

\* the record a detector hands to upsertPattern for matches m at time t
PatternRecord(d, e, m, t) ==
    [patternName |-> PatternName(d, e),
     patternType |-> d,
     patternCriteria |-> [matchingEmails |-> Len(m)],
     matchCount |-> Len(m),
     isConfirmedThreat |-> IF d = "impersonation" THEN TRUE ELSE Len(m) >= ConfirmedCount,
     firstDetectedAt |-> m[Len(m)].createdAt,
     lastDetectedAt |-> t]

\* the isNew of a returned pattern
IsNew(n) == n = MinMatchCount

\* the DetectedPattern a detector returns
DetectedPattern(d, e, m) ==
    [type |-> d, name |-> PatternName(d, e), matchCount |-> Len(m), isNew |-> IsNew(Len(m))]

\* the first detector at or after position i that has something to search
\* for, or Len(Detectors) + 1
NextDetector(e, i) ==
    IF \E j \in i..Len(Detectors) : Applicable(Detectors[j], e)
    THEN CHOOSE j \in i..Len(Detectors) :
            /\ Applicable(Detectors[j], e)
            /\ \A k \in i..(j - 1) : ~Applicable(Detectors[k], e)
    ELSE Len(Detectors) + 1

NoDetection == [emailData |-> ExtractedEmail(NoDomain, <<>>, FALSE, <<>>), isPhishing |-> FALSE,
                detector |-> 0, matches |-> <<>>,
                counted |-> [i \in DOMAIN Detectors |-> -1], upserted |-> {},
                patterns |-> <<>>, before |-> <<>>]

\* the detector and the analyses table before any call
DetInit ==
    /\ email_analyses = <<>>
    /\ dpc = "idle"
    /\ dcall = NoDetection
    /\ history = <<>>
    /\ detectCalls = 0

(***************************************************************************)
(* Schema initialisation (IntelligenceDatabaseService.initialize)          *)
(***************************************************************************)
\* store operations that may run at once, and operations started in one
\* behaviour
NumOps == 3
MaxOps == 4

Ops == 1..NumOps

\* a store just constructed
SchemaInit ==
    /\ initialized = FALSE
    /\ opc = [o \in Ops |-> "idle"]
    /\ schemaRuns = 0
    /\ started = 0

(***************************************************************************)
(* Read queries: searchAnalyses and getActiveIndicators.  An optional      *)
(* argument is <<>> when the caller leaves it out and <<v>> when it is     *)
(* given.  A table is a sequence of runs, [row |-> r, n |-> k] standing    *)
(* for k rows that differ in their id only, so that a table can hold more  *)
(* rows than the largest page.                                             *)
(***************************************************************************)
\* the number of rows in the first k runs
RECURSIVE RowsBefore(_, _)
RowsBefore(runs, k) == IF k = 0 THEN 0 ELSE RowsBefore(runs, k - 1) + runs[k].n

\* the number of rows of a table or a result
TotalRows(runs) == RowsBefore(runs, Len(runs))

\* LIMIT limit OFFSET offset over ordered rows: the rows at positions
\* offset + 1 .. offset + limit
Page(runs, limit, offset) ==
    LET taken == [i \in DOMAIN runs |->
                    MathMax(0, MathMin(RowsBefore(runs, i), offset + limit)
                               - MathMax(RowsBefore(runs, i - 1), offset))]
        Taken(i) == taken[i] > 0
        kept == SelectSeq([i \in DOMAIN runs |-> i], Taken)
    IN  [j \in DOMAIN kept |-> [row |-> runs[kept[j]].row, n |-> taken[kept[j]]]]

\* ORDER BY created_at DESC (the runs of a table differ in created_at)
OrderByCreatedAtDesc(runs) ==
    [i \in DOMAIN runs |->
        CHOOSE r \in {runs[j] : j \in DOMAIN runs} :
            Cardinality({j \in DOMAIN runs : runs[j].row.createdAt > r.row.createdAt}) = i - 1]

\* ORDER BY last_seen_at DESC (the runs of a table differ in last_seen_at)
OrderByLastSeenAtDesc(runs) ==
    [i \in DOMAIN runs |->
        CHOOSE r \in {runs[j] : j \in DOMAIN runs} :
            Cardinality({j \in DOMAIN runs : runs[j].row.lastSeenAt > r.row.lastSeenAt}) = i - 1]

\* the filters of searchAnalyses as its callers build them
Filters(fromDate, isPhishing, fromDomain, limit, offset) ==
    [fromDate |-> fromDate, toDate |-> <<>>, isPhishing |-> isPhishing, riskLevel |-> <<>>,
     fromDomain |-> fromDomain, profileId |-> <<>>, limit |-> limit, offset |-> offset]

\* the WHERE clause searchAnalyses builds from the filters that are set
AnalysisSelected(row, f) ==
    /\ f.fromDate # <<>> => row.createdAt >= f.fromDate[1]
    /\ f.toDate # <<>> => row.createdAt <= f.toDate[1]
    /\ f.isPhishing # <<>> => row.isPhishing = f.isPhishing[1]
    /\ f.riskLevel # <<>> => row.riskLevel = f.riskLevel[1]
    /\ f.fromDomain # <<>> => row.fromDomain = f.fromDomain[1]
    /\ f.profileId # <<>> => row.profileId = f.profileId[1]

\* searchAnalyses over a table of runs: SELECT * FROM email_analyses WHERE
\* ... ORDER BY created_at DESC LIMIT limit OFFSET offset
searchAnalysesRuns(runs, f) ==
    LET Selected(r) == AnalysisSelected(r.row, f)
    IN  Page(OrderByCreatedAtDesc(SelectSeq(runs, Selected)),
             ClampLimit(f.limit), ClampOffset(f.offset))

\* mutant: expired indicators are returned too
IndicatorSelected_IgnoresExpiry(row, type, t) ==
    /\ row.isActive
    /\ type # <<>> => row.indicatorType = type[1]

\* the WHERE clause of getActiveIndicators at time t
IndicatorSelected(row, type, t) ==
    /\ row.isActive
    /\ (row.expiresAt = NoTime \/ row.expiresAt > t)
    /\ type # <<>> => row.indicatorType = type[1]

\* getActiveIndicators(type, limit) at time t; the parameter limit
\* defaults to 100
getActiveIndicators(runs, type, limit, t) ==
    LET Selected(r) == IndicatorSelected(r.row, type, t)
    IN  Page(OrderByLastSeenAtDesc(SelectSeq(runs, Selected)), ClampLimit(limit), 0)

AnalysisRun(createdAt, isPhishing, k) ==
    [row |-> [createdAt |-> createdAt, isPhishing |-> isPhishing, riskLevel |-> "high",
              fromDomain |-> "mx", profileId |-> "p"],
     n |-> k]

IndicatorRun(type, active, expiresAt, lastSeenAt, k) ==
    [row |-> [indicatorType |-> type, isActive |-> active, expiresAt |-> expiresAt,
              lastSeenAt |-> lastSeenAt],
     n |-> k]

\* the tables the queries run on: an empty store, a small one, and one
\* with more rows of each kind than the largest page
TableInputs ==
    {[email_analyses |-> <<>>, threat_indicators |-> <<>>],
     [email_analyses |-> <<AnalysisRun(4, TRUE, 3), AnalysisRun(5, FALSE, 1)>>,
      threat_indicators |-> <<IndicatorRun("domain", TRUE, NoTime, 4, 2),
                              IndicatorRun("domain", TRUE, 4, 5, 1),
                              IndicatorRun("url", TRUE, NoTime, 0, 1)>>],
     [email_analyses |-> <<AnalysisRun(0, TRUE, 1500), AnalysisRun(5, TRUE, 1000),
                           AnalysisRun(4, FALSE, 2)>>,
      threat_indicators |-> <<IndicatorRun("domain", TRUE, NoTime, 0, 700),
                              IndicatorRun("domain", TRUE, 5, 4, 600),
                              IndicatorRun("url", TRUE, NoTime, 5, 1200),
                              IndicatorRun("domain", TRUE, 4, 3, 10),
                              IndicatorRun("domain", FALSE, NoTime, 29, 5)>>]}

\* the limits and offsets the callers pass
LimitInputs == {<<>>, <<-5>>, <<0>>, <<1>>, <<10>>, <<1000>>, <<1001>>, <<5000>>}
OffsetInputs == {<<>>, <<-3>>, <<0>>, <<2>>, <<1600>>, <<3000>>}

NoQuery == [op |-> "none"]

\* no read query has run
QueryInit ==
    /\ tables = [email_analyses |-> <<>>, threat_indicators |-> <<>>]
    /\ query = NoQuery
    /\ returnedRows = <<>>

(***************************************************************************)
(* IOC extraction (extractIOCs).  The content of an email is the sequence  *)
(* of the tokens the extractor's regular expressions find in it: URLs, IP  *)
(* literals and hashes.  A domain is its sequence of labels and an IP      *)
(* literal its four octets; all text is lower-case.  A confidence is       *)
(* counted in ten-thousandths.  What a regular expression of the source    *)
(* says about a label, a path or a local part is given by the set of the   *)
(* labels, paths and local parts of the inputs that it matches.            *)
(***************************************************************************)
\* analysis.isPhishing ? 0.7 : 0.3
PhishingConfidence == 7000
OtherConfidence == 3000

\* DEFAULT_OPTIONS.minConfidence
DefaultMinConfidence == 3000

\* Math.min(confidence + 0.2, 1.0); in double arithmetic 0.3 + 0.2 is 0.5
\* and 0.7 + 0.2 is 0.8999999999999999, which 8999 stands for
AddBonus(confidence) ==
    IF confidence = PhishingConfidence THEN 8999 ELSE MathMin(confidence + 2000, 10000)

\* the values of AnalysisResult.confidence
ConfidenceLabels == {"Very High", "High", "Medium", "Low", "Very Low", "N/A", "Unknown"}

\* confidence.toLowerCase()
LowerLabel(confidence) ==
    CASE confidence = "Very High" -> "very high"
      [] confidence = "High" -> "high"
      [] confidence = "Medium" -> "medium"
      [] confidence = "Low" -> "low"
      [] confidence = "Very Low" -> "very low"
      [] confidence = "N/A" -> "n/a"
      [] confidence = "Unknown" -> "unknown"

\* the lower-case labels that include 'very high', and 'moderate'
IncludesVeryHigh == {"very high"}
IncludesModerate == {}

\* determineSeverity(analysis)
determineSeverity(analysis) ==
    IF ~analysis.isPhishing THEN "low"
    ELSE LET confidence == LowerLabel(analysis.confidence)
         IN  IF confidence \in IncludesVeryHigh \/ confidence = "high" THEN "critical"
             ELSE IF confidence = "medium" \/ confidence \in IncludesModerate THEN "high"
             ELSE "medium"

\* the list in isSafeDomain
SafeDomains ==
    {<<"google", "com">>, <<"microsoft", "com">>, <<"apple", "com">>, <<"amazon", "com">>,
     <<"facebook", "com">>, <<"linkedin", "com">>, <<"twitter", "com">>,
     <<"github", "com">>, <<"slack", "com">>, <<"zoom", "us">>,
     <<"salesforce", "com">>, <<"office", "com">>, <<"outlook", "com">>}

\* lowerDomain === safe || lowerDomain.endsWith('.' + safe)
isSafeDomain(domain) ==
    \E safe \in SafeDomains :
        /\ Len(domain) >= Len(safe)
        /\ SubSeq(domain, Len(domain) - Len(safe) + 1, Len(domain)) = safe

\* the labels of the inputs made of digits only, those with three digits
\* in a row, those with -secure, -login, -verify or -account, and those of
\* twenty or more letters and digits
DigitLabels == {"8", "10", "169", "254", "203", "0", "113", "50"}
ThreeDigitLabels == {"169", "254", "203", "113"}
KeywordLabels == {"paypal-login"}
LongLabels == {"a1b2c3d4e5f6g7h8i9j0k"}

\* isSuspiciousDomain(domain)
isSuspiciousDomain(domain) ==
    \/ Len(domain) > 1 /\ domain[1] \in LongLabels
    \/ \E i \in DOMAIN domain : domain[i] \in KeywordLabels
    \/ \E i \in DOMAIN domain : domain[i] \in ThreeDigitLabels
    \/ Len(domain) > 1 /\ domain[1] \in DigitLabels

\* the hosts of URL shorteners, and the paths with '.php?...='
Shorteners == {<<"bit", "ly">>, <<"goo", "gl">>}
PhpPaths == {"/index.php?id=1"}

\* a URL found by extractUrls: its host, the octets of the host when it is
\* an IP literal (else <<>>), and its path
Url(host, octets, path) == [kind |-> "url", host |-> host, octets |-> octets, path |-> path]

\* an IP literal matched by IP_REGEX outside a URL
Ip(a, b, c, d) == [kind |-> "ip", octets |-> <<a, b, c, d>>]

\* a hash matched by one of HASH_PATTERNS
Hash(hashType, hex) == [kind |-> "hash", hashType |-> hashType, hex |-> hex]

\* containsSuspiciousUrlPatterns(url)
containsSuspiciousUrlPatterns(url) ==
    \/ url.host \in Shorteners
    \/ url.octets # <<>>
    \/ \E i \in DOMAIN url.host : url.host[i] \in KeywordLabels
    \/ url.path \in PhpPaths

\* isSafeUrl(url)
isSafeUrl(url) == isSafeDomain(url.host)

\* the local parts matched by noreply|no-reply|donotreply, admin@,
\* support@, security@ or twenty letters and digits before the @
SuspiciousLocals == {"noreply", "admin"}

\* containsSuspiciousEmailPatterns(email)
containsSuspiciousEmailPatterns(email) == email.local \in SuspiciousLocals

\* isSafeEmail(email)
isSafeEmail(email) == isSafeDomain(email.domain)

\* isPrivateIP(ip), on the octets of ip.split('.').map(Number)
isPrivateIP(ip) ==
    \/ ip[1] = 10
    \/ ip[1] = 172 /\ ip[2] >= 16 /\ ip[2] <= 31
    \/ ip[1] = 192 /\ ip[2] = 168
    \/ ip[1] = 127

\* [...new Set(s)]: the elements of s, each at its first place
Unique(s) ==
    LET First(i) == \A j \in 1..(i - 1) : s[j] # s[i]
        firsts == SelectSeq([i \in DOMAIN s |-> i], First)
    IN  [k \in DOMAIN firsts |-> s[firsts[k]]]

\* the tokens of a kind, in the order of the content
TokensOf(content, kind) ==
    LET OfKind(x) == x.kind = kind
    IN  SelectSeq(content, OfKind)

\* extractUrls(content): the distinct URLs
extractUrls(content) == Unique(TokensOf(content, "url"))

\* content.match(IP_REGEX): the IP literals, those inside URLs included
IpMatches(content) ==
    LET HasOctets(x) == x.kind = "ip" \/ (x.kind = "url" /\ x.octets # <<>>)
        tokens == SelectSeq(content, HasOctets)
    IN  [i \in DOMAIN tokens |-> tokens[i].octets]

\* hashValue(type, value): the text digested
hashValue(type, value) == <<type, ":", value>>

\* the ThreatIndicatorRecord the extractors push
Candidate(type, value, confidence, severity, t) ==
    [indicatorType |-> type, indicatorValue |-> value,
     indicatorHash |-> hashValue(type, value), confidenceScore |-> confidence,
     severity |-> severity, timesSeen |-> 1, firstSeenAt |-> t, lastSeenAt |-> t,
     isActive |-> TRUE]

\* extractUrlIOCs
extractUrlIOCs(content, baseConfidence, severity, t) ==
    LET NotSafe(u) == ~isSafeUrl(u)
        urls == SelectSeq(extractUrls(content), NotSafe)
    IN  [i \in DOMAIN urls |->
            Candidate("url", urls[i],
                      IF containsSuspiciousUrlPatterns(urls[i])
                      THEN AddBonus(baseConfidence) ELSE baseConfidence,
                      severity, t)]

\* extractDomainIOCs: the sender's domain, then the hosts of the URLs
extractDomainIOCs(emailData, content, baseConfidence, severity, t) ==
    LET urls == extractUrls(content)
        all == <<emailData.from_email.domain>> \o [i \in DOMAIN urls |-> urls[i].host]
        NotSafe(d) == ~isSafeDomain(d)
        domains == Unique(SelectSeq(all, NotSafe))
    IN  [i \in DOMAIN domains |->
            Candidate("domain", domains[i],
                      IF isSuspiciousDomain(domains[i])
                      THEN AddBonus(baseConfidence) ELSE baseConfidence,
                      severity, t)]

\* extractIPIOCs
extractIPIOCs(content, baseConfidence, severity, t) ==
    LET Public(ip) == ~isPrivateIP(ip)
        ips == SelectSeq(Unique(IpMatches(content)), Public)
    IN  [i \in DOMAIN ips |-> Candidate("ip", ips[i], baseConfidence, severity, t)]

\* extractHashIOCs
extractHashIOCs(content, baseConfidence, severity, t) ==
    LET hashes == Unique(TokensOf(content, "hash"))
    IN  [i \in DOMAIN hashes |->
            Candidate("hash", <<hashes[i].hashType, ":", hashes[i].hex>>,
                      baseConfidence, severity, t)]

\* extractEmailIOCs
extractEmailIOCs(emailData, baseConfidence, severity, t) ==
    IF isSafeEmail(emailData.from_email) THEN <<>>
    ELSE <<Candidate("email", emailData.from_email,
                     IF containsSuspiciousEmailPatterns(emailData.from_email)
                     THEN AddBonus(baseConfidence) ELSE baseConfidence,
                     severity, t)>>

\* the candidates of extractIOCs before the confidence filter (all five
\* extractors are on by default)
Candidates(emailData, analysis, t) ==
    LET baseConfidence == IF analysis.isPhishing THEN PhishingConfidence ELSE OtherConfidence
        severity == determineSeverity(analysis)
    IN  extractUrlIOCs(emailData.content, baseConfidence, severity, t)
        \o extractDomainIOCs(emailData, emailData.content, baseConfidence, severity, t)
        \o extractIPIOCs(emailData.content, baseConfidence, severity, t)
        \o extractHashIOCs(emailData.content, baseConfidence, severity, t)
        \o extractEmailIOCs(emailData, baseConfidence, severity, t)

\* mutant: an indicator at the threshold itself is filtered out
KeepsIndicator_Strict(confidenceScore, minConfidence) == confidenceScore > minConfidence

\* mutant: the filter keeps the indicators at the threshold or below
KeepsIndicator_Below(confidenceScore, minConfidence) == confidenceScore <= minConfidence

\* i.confidenceScore >= (opts.minConfidence ?? 0)
KeepsIndicator(confidenceScore, minConfidence) == confidenceScore >= minConfidence

\* extractIOCs(emailData, analysis, {minConfidence}) at time t
extractIOCs(emailData, analysis, minConfidence, t) ==
    LET indicators == Candidates(emailData, analysis, t)
        Kept(i) == KeepsIndicator(i.confidenceScore, minConfidence)
    IN  SelectSeq(indicators, Kept)

Sender(local, domain) == [local |-> local, domain |-> domain]

\* the emails handed to extractIOCs: the sender and the tokens of text,
\* html, subject and links
ExtractionInputs ==
    {[from_email |-> Sender("sender", <<"suspicious", "com">>),
      content |-> <<Url(<<"suspicious", "com">>, <<>>, "/login")>>],
     [from_email |-> Sender("noreply", <<"paypal-login", "com">>),
      content |-> <<Url(<<"bit", "ly">>, <<>>, "/x"),
                    Ip(203, 0, 113, 50), Ip(10, 0, 0, 1), Ip(203, 0, 113, 50),
                    Ip(172, 16, 0, 1), Ip(172, 32, 0, 1), Ip(192, 168, 1, 1),
                    Ip(127, 0, 0, 1), Ip(169, 254, 1, 1),
                    Hash("sha256", "ab12")>>],
     [from_email |-> Sender("a", <<"mail", "google", "com">>),
      content |-> <<Url(<<"google", "com">>, <<>>, "/"),
                    Url(<<"8", "8", "8", "8">>, <<8, 8, 8, 8>>, "/index.php?id=1")>>],
     [from_email |-> Sender("a", <<"google", "com">>),
      content |-> <<Url(<<"google", "com">>, <<>>, "/")>>]}

\* the verdicts handed to extractIOCs
VerdictInputs == [isPhishing : BOOLEAN, confidence : ConfidenceLabels]

(***************************************************************************)
(* WebhookService: the delivery of one event to the matching webhooks.     *)
(***************************************************************************)
\* this.defaultRetries
DefaultRetries == 3

\* a WebhookConfig
WebhookConfig(url, events, retries, isEnabled) ==
    [url |-> url, events |-> events, retries |-> retries, enabled |-> isEnabled]

\* an enabled WebhookConfig
Webhook(url, events, retries) == WebhookConfig(url, events, retries, TRUE)

\* new URL(url): whether it parses, parsed.protocol, parsed.hostname in
\* lower case and, when the hostname is an IPv4 literal, its octets.  "a",
\* "b" and "c" stand for three https URLs of public hosts
ParsedUrl(url) ==
    CASE url \in {"a", "b", "c"} ->
            [valid |-> TRUE, protocol |-> "https:", hostname |-> <<url, "example", "com">>, octets |-> <<>>]
      [] url = "http://siem.example.com/hook" ->
            [valid |-> TRUE, protocol |-> "http:", hostname |-> <<"siem", "example", "com">>, octets |-> <<>>]
      [] url = "https://LOCALHOST/hook" ->
            [valid |-> TRUE, protocol |-> "https:", hostname |-> <<"localhost">>, octets |-> <<>>]
      [] url = "https://169.254.169.254/latest" ->
            [valid |-> TRUE, protocol |-> "https:", hostname |-> <<"169", "254", "169", "254">>,
             octets |-> <<169, 254, 169, 254>>]
      [] url = "https://10.0.0.7/hook" ->
            [valid |-> TRUE, protocol |-> "https:", hostname |-> <<"10", "0", "0", "7">>,
             octets |-> <<10, 0, 0, 7>>]
      [] url = "https://8.8.8.8/hook" ->
            [valid |-> TRUE, protocol |-> "https:", hostname |-> <<"8", "8", "8", "8">>,
             octets |-> <<8, 8, 8, 8>>]
      [] OTHER ->
            [valid |-> FALSE, protocol |-> "", hostname |-> <<>>, octets |-> <<>>]

\* BLOCKED_HOSTNAMES
BlockedHostnames == {<<"localhost">>, <<"metadata", "google", "internal">>, <<"metadata">>}

\* some range of BLOCKED_IP_RANGES matches the hostname
InBlockedIpRange(octets) ==
    \/ octets[1] = 10
    \/ octets[1] = 172 /\ octets[2] >= 16 /\ octets[2] <= 31
    \/ octets[1] = 192 /\ octets[2] = 168
    \/ octets[1] = 127
    \/ octets[1] = 169 /\ octets[2] = 254
    \/ octets[1] = 0

\* WebhookService.isUrlSafe(url)
isUrlSafe(url) ==
    LET parsed == ParsedUrl(url)
    IN  IF ~parsed.valid THEN FALSE
        ELSE IF parsed.protocol # "https:" /\ nodeEnv # "development" THEN FALSE
        ELSE IF parsed.hostname \in BlockedHostnames THEN FALSE
        ELSE IF parsed.octets # <<>> /\ InBlockedIpRange(parsed.octets) THEN FALSE
        ELSE TRUE

\* the constructor: webhooks.filter(w => w.enabled).filter(w => this.isUrlSafe(w.url))
ConstructWebhooks(configs) ==
    LET Kept(w) == w.enabled /\ isUrlSafe(w.url)
    IN  SelectSeq(configs, Kept)

\* the most webhooks a service holds
MaxWebhooks == 3

\* the configurations handed to addWebhook
ConfigInputs ==
    {WebhookConfig("c", {"threat.detected"}, <<1>>, TRUE),
     WebhookConfig("c", {"threat.detected"}, <<1>>, FALSE),
     WebhookConfig("http://siem.example.com/hook", {"threat.detected"}, <<1>>, TRUE),
     WebhookConfig("https://169.254.169.254/latest", {"threat.high_confidence"}, <<1>>, TRUE),
     WebhookConfig("https://8.8.8.8/hook", {"pattern.detected"}, <<1>>, TRUE),
     WebhookConfig("not a url", {"pattern.detected"}, <<1>>, FALSE)}

\* the webhooks a service is constructed with
WebhookInputs ==
    {<<>>,
     <<Webhook("a", {"threat.high_confidence", "threat.detected"}, <<>>),
       Webhook("b", {"threat.high_confidence", "pattern.detected"}, <<1>>),
       Webhook("c", {"pattern.detected"}, <<2>>)>>,
     <<Webhook("a", {"threat.high_confidence"}, <<>>),
       Webhook("b", {"threat.high_confidence"}, <<>>)>>,
     <<Webhook("a", {"threat.detected"}, <<0>>),
       Webhook("b", {"threat.detected", "pattern.detected"}, <<2>>)>>,
     <<WebhookConfig("a", {"threat.detected"}, <<1>>, FALSE),
       Webhook("https://LOCALHOST/hook", {"threat.detected"}, <<1>>),
       Webhook("https://10.0.0.7/hook", {"threat.detected"}, <<1>>),
       Webhook("http://siem.example.com/hook", {"threat.detected"}, <<1>>),
       Webhook("not a url", {"threat.detected"}, <<1>>),
       Webhook("https://8.8.8.8/hook", {"threat.detected"}, <<1>>)>>}

\* webhook.retries ?? this.defaultRetries
MaxRetries(webhook) ==
    IF webhook.retries = <<>> THEN DefaultRetries ELSE webhook.retries[1]

\* WebhookService.determineSeverity(analysis)
determineSeverity_Webhook(analysis) ==
    IF ~analysis.isPhishing THEN "low"
    ELSE LET confidence == LowerLabel(analysis.confidence)
         IN  IF confidence \in IncludesVeryHigh THEN "critical"
             ELSE IF confidence = "high" THEN "high"
             ELSE IF confidence = "medium" THEN "medium"
             ELSE "low"

\* the event of sendThreatDetected
ThreatEvent(analysis) ==
    IF determineSeverity_Webhook(analysis) \in {"critical", "high"}
    THEN "threat.high_confidence" ELSE "threat.detected"

\* this.webhooks.filter(w => w.events.includes(payload.event)), by index
MatchingWebhooks(event) ==
    LET Includes(i) == event \in webhooks[i].events
    IN  SelectSeq([i \in DOMAIN webhooks |-> i], Includes)

\* the result of deliverToWebhook after the loop
Exhausted(maxRetries, lastError) ==
    [success |-> FALSE, error |-> lastError, retries |-> maxRetries]

\* deliverToWebhook up to its first await: the first axios.post is under
\* way, or the loop is not entered at all
StartDelivery(i) ==
    IF MaxRetries(webhooks[i]) > 0
    THEN [webhook |-> i, pc |-> "posting", attempt |-> 0, posts |-> 1, outcome |-> NotYet]
    ELSE [webhook |-> i, pc |-> "settled", attempt |-> 0, posts |-> 0,
          outcome |-> Exhausted(0, "undefined")]

\* deliverToMatchingWebhooks(payload) up to Promise.allSettled
DeliverToMatchingWebhooks(op, event) ==
    LET matching == MatchingWebhooks(event)
    IN  IF matching = <<>>
        THEN /\ sendCall' = [op |-> op, event |-> event, status |-> "resolved"]
             /\ delivery' = <<>>
        ELSE /\ sendCall' = [op |-> op, event |-> event, status |-> "pending"]
             /\ delivery' = [k \in DOMAIN matching |-> StartDelivery(matching[k])]

(***************************************************************************)
(* The SES Lambda handler                                                  *)
(***************************************************************************)
\* createResponse(statusCode, body)
createResponse(statusCode, body) == [statusCode |-> statusCode, body |-> body]

\* what parseEmailEvents may return: events with a message ("msg") and
\* events without one ("nomsg")
ParsedInputs == {<<>>, <<"msg">>, <<"nomsg">>, <<"msg", "msg">>, <<"nomsg", "msg">>, <<"msg", "nomsg">>}

\* the statuses processEmailEvent returns
ProcessingStatuses == {"processed", "incomplete", "duplicate", "skipped"}

(***************************************************************************)
(* AnalysisService.analyzeEmail                                            *)
(***************************************************************************)
\* mutant: the error result carries the confidence 'Unknown'
createErrorResult_Unknown(errorMessage) ==
    [summary |-> <<"Analysis could not be completed: ", errorMessage>>,
     isPhishing |-> FALSE, confidence |-> "Unknown", provider |-> "none", model |-> "none"]

\* AnalysisService.createErrorResult(errorMessage)
createErrorResult(errorMessage) ==
    [summary |-> <<"Analysis could not be completed: ", errorMessage>>,
     isPhishing |-> FALSE, confidence |-> "N/A", provider |-> "none", model |-> "none"]

\* the results a provider may return
ProviderResult(name, verdict) ==
    [summary |-> <<"verdict">>, isPhishing |-> verdict.isPhishing,
     confidence |-> verdict.confidence, provider |-> name, model |-> "m"]

\* the messages of the errors a provider may throw
ProviderErrors == {"status 529", "timeout"}

NoResult == [provider |-> "pending"]

\* a call of provider.analyzeEmail(emailData) under way
ProviderCall(provider, emailData) ==
    [provider |-> provider, emailData |-> emailData, outcome |-> "pending", result |-> NoResult]

\* DEFAULT_OPTIONS.maxRetries
DefaultMaxRetries == 3

\* an Error, by what isRetryableHttpError reads of its message: whether
\* it names a network failure, the three digits after "status" if any,
\* and whether it mentions overload or capacity
RetryError(network, status, overload) ==
    [network |-> network, status |-> status, overload |-> overload]

\* new Error('All retry attempts failed')
AllAttemptsFailed == RetryError(FALSE, <<>>, FALSE)

\* the errors fn rejects with
RetryErrors ==
    {RetryError(TRUE, <<>>, FALSE),
     RetryError(FALSE, <<503>>, FALSE),
     RetryError(FALSE, <<429>>, FALSE),
     RetryError(FALSE, <<404>>, FALSE),
     RetryError(FALSE, <<302>>, FALSE),
     RetryError(FALSE, <<>>, TRUE)}

\* isRetryableHttpError(error)
isRetryableHttpError(error) ==
    IF error.network THEN TRUE
    ELSE IF error.status # <<>> /\ (error.status[1] >= 500 \/ error.status[1] = 429 \/ error.status[1] = 529)
         THEN TRUE
    ELSE IF error.status # <<>> /\ error.status[1] >= 400 /\ error.status[1] < 500
         THEN FALSE
    ELSE IF error.overload THEN TRUE
    ELSE TRUE

\* opts.shouldRetry && !opts.shouldRetry(lastError)
RejectsRetry(opts, error) ==
    /\ opts.shouldRetry # "none"
    /\ ~(CASE opts.shouldRetry = "isRetryableHttpError" -> isRetryableHttpError(error)
           [] opts.shouldRetry = "never" -> FALSE)

\* the options callers pass: maxRetries left out or given, shouldRetry
\* left out, isRetryableHttpError, or a predicate that rejects every error
RetryOptionInputs ==
    [maxRetries : {<<>>, <<0>>, <<1>>, <<2>>}, shouldRetry : {"none", "isRetryableHttpError", "never"}]

\* { ...DEFAULT_OPTIONS, ...options }
MergeOptions(options) ==
    [maxRetries |-> IF options.maxRetries = <<>> THEN DefaultMaxRetries ELSE options.maxRetries[1],
     shouldRetry |-> options.shouldRetry]

\* one call of fn: pending, or settled with a value or with an error
FnCall(state, value, error) == [state |-> state, value |-> value, error |-> error]
PendingCall == FnCall("pending", "", AllAttemptsFailed)

\* the promise withRetry returned, once settled
Settled(status, value, error) == [status |-> status, value |-> value, error |-> error]

\* the values of minConfidence the callers pass, in ten-thousandths
Thresholds == {0, 3000, 5000, 7000, 9000, 10000}

NoExtraction == [op |-> "none"]

\* extractIOCs has not been called
ExtractInit ==
    /\ extraction = NoExtraction
    /\ extracted = [m \in Thresholds |-> NotYet]

NoSend == [op |-> "none", event |-> "none", status |-> "resolved"]

\* a WebhookService without webhooks
HookInit ==
    /\ webhooks = <<>>
    /\ delivery = <<>>
    /\ sendCall = NoSend
    /\ nodeEnv = "production"

\* the Lambda before any invocation
HandlerInit ==
    /\ hpc = "idle"
    /\ emailEvents = <<>>
    /\ processingResults = <<>>
    /\ response = NotYet
    /\ cachedServices = FALSE

\* an AnalysisService with a primary provider only, not called yet
AiInit ==
    /\ fallbackProvider = FALSE
    /\ apc = "idle"
    /\ providerCalls = <<>>
    /\ analysisResult = NotYet

NoRetry == [maxRetries |-> 0, shouldRetry |-> "none"]

\* withRetry has not been called
RetryInit ==
    /\ retryOpts = NoRetry
    /\ rpc = "idle"
    /\ attemptNo = 0
    /\ fnCalls = <<>>
    /\ sleeps = {}
    /\ settled = Settled("pending", "", AllAttemptsFailed)

\* a pool with every client in it
PoolInit ==
    /\ clients = <<>>
    /\ checkedOut = {}

\* the state of the indicator and pattern tables before any call
UpInit ==
    /\ threat_indicators = <<>>
    /\ detected_patterns = <<>>
    /\ wpc = [w \in Writers |-> "idle"]
    /\ wcall = [w \in Writers |-> NoCall]
    /\ executed = <<>>

\* the state of the campaign store and alert service before any call
CampInit ==
    /\ campaigns = <<>>
    /\ rowLock = [s \in SigSpace |-> 0]
    /\ pc = [h \in Handlers |-> "idle"]
    /\ call = [h \in Handlers |-> Idle]
    /\ now = 0
    /\ alerts = <<>>
    /\ tracked = [c \in ClassSpace |-> 0]
    /\ seenRcpt = [c \in ClassSpace |-> {}]
    /\ worstRisk = [c \in ClassSpace |-> "none"]
    /\ undelivered = {}

Init ==
    /\ subject = <<>>
    /\ once = NotYet
    /\ twice = NotYet
    /\ variant = <<>>
    /\ onceVariant = NotYet
    /\ enabled \in BOOLEAN
    /\ CampInit
    /\ UpInit
    /\ DetInit
    /\ SchemaInit
    /\ QueryInit
    /\ ExtractInit
    /\ HookInit
    /\ HandlerInit
    /\ AiInit
    /\ RetryInit
    /\ PoolInit

\* the locals of a call that reached trackCampaignDetection: the query
\* parameters (index.ts:721-725, 755-756) and, as ghosts, the class and the
\* lower-cased recipient the claims speak of
TrackLocals(via, e, riskLevel) ==
    [via |-> via,
     sig |-> Signature(e.senderDomain, NormalizedSubject[e.subject]),
     senderDomain |-> DomainParam(e.senderDomain),
     subjectPattern |-> NormalizedSubject[e.subject],
     rcpt |-> RecipientParam(e.recipient),
     risk |-> riskLevel,
     indicators |-> IndicatorsParam(e.indicators),
     txnStart |-> now,
     row |-> NoRow,
     match |-> NoMatch,
     result |-> "pending",
     class |-> ClassOf(e.senderDomain, e.subject),
     rcptKey |-> ToLowerCase(e.recipient)]

\* what a finished call leaves behind: its return value
Returned(c, result, m) == [via |-> c.via, result |-> result, match |-> m]

\* mutant: the risk gate is missing
Eligible_AnyRisk(riskLevel) == enabled

\* the gates of processDetection (part_005:42-49)
Eligible(riskLevel) == enabled /\ riskLevel \in {"high", "critical"}

\* CampaignAlertService.processDetection up to the first await: the two
\* gates, then trackCampaignDetection up to BEGIN
ProcessDetection(h, e, riskLevel) ==
    /\ pc[h] \in {"idle", "done"}
    /\ IF ~Eligible(riskLevel)
       THEN /\ pc' = [pc EXCEPT ![h] = "done"]
            /\ call' = [call EXCEPT ![h] =
                          [via |-> "gated", risk |-> riskLevel, result |-> "false",
                           match |-> NoMatch]]
       ELSE /\ Detections < MaxCalls
            /\ pc' = [pc EXCEPT ![h] = "upsert"]
            /\ call' = [call EXCEPT ![h] = TrackLocals("process", e, riskLevel)]
    /\ UNCHANGED <<enabled, campaigns, rowLock, now, alerts, tracked, seenRcpt, worstRisk, undelivered>>
    /\ UNCHANGED <<normVars, upVars, detVars, initVars, qVars, iocVars, hookVars, lamVars, aiVars, retryVars, poolVars>>

\* IntelligenceDatabaseService.trackCampaignDetection called directly, up to BEGIN
TrackCampaignDetection(h, e, riskLevel) ==
    /\ pc[h] \in {"idle", "done"}
    /\ Detections < MaxCalls
    /\ pc' = [pc EXCEPT ![h] = "upsert"]
    /\ call' = [call EXCEPT ![h] = TrackLocals("direct", e, riskLevel)]
    /\ UNCHANGED <<enabled, campaigns, rowLock, now, alerts, tracked, seenRcpt, worstRisk, undelivered>>
    /\ UNCHANGED <<normVars, upVars, detVars, initVars, qVars, iocVars, hookVars, lamVars, aiVars, retryVars, poolVars>>

\* mutant: the statement does not wait for the open transaction
Upsert_Unserialized(h) ==
    /\ pc[h] = "upsert"
    /\ rowLock' = [rowLock EXCEPT ![call[h].sig] = h]
    /\ call' = [call EXCEPT ![h].row =
                  UpsertCampaign(campaigns, call[h], call[h].txnStart)]
    /\ pc' = [pc EXCEPT ![h] = "commit"]
    /\ UNCHANGED <<enabled, campaigns, now, alerts, tracked, seenRcpt, worstRisk, undelivered>>
    /\ UNCHANGED <<normVars, upVars, detVars, initVars, qVars, iocVars, hookVars, lamVars, aiVars, retryVars, poolVars>>

\* the upsert statement inside the transaction: it waits while another open
\* transaction holds the row, then writes its own version of the row
Upsert(h) ==
    /\ pc[h] = "upsert"
    /\ rowLock[call[h].sig] = 0
    /\ rowLock' = [rowLock EXCEPT ![call[h].sig] = h]
    /\ call' = [call EXCEPT ![h].row =
                  UpsertCampaign(campaigns, call[h], call[h].txnStart)]
    /\ pc' = [pc EXCEPT ![h] = "commit"]
    /\ UNCHANGED <<enabled, campaigns, now, alerts, tracked, seenRcpt, worstRisk, undelivered>>
    /\ UNCHANGED <<normVars, upVars, detVars, initVars, qVars, iocVars, hookVars, lamVars, aiVars, retryVars, poolVars>>

\* COMMIT: the written row becomes the stored row
Commit(h) ==
    /\ pc[h] = "commit"
    /\ campaigns' = [s \in DOMAIN campaigns \cup {call[h].sig} |->
                       IF s = call[h].sig THEN call[h].row ELSE campaigns[s]]
    /\ rowLock' = [rowLock EXCEPT ![call[h].sig] = 0]
    /\ tracked' = [tracked EXCEPT ![call[h].class] = @ + 1]
    /\ seenRcpt' = [seenRcpt EXCEPT ![call[h].class] = @ \cup {call[h].rcptKey}]
    /\ worstRisk' = [worstRisk EXCEPT ![call[h].class] = Worse(@, call[h].risk)]
    /\ pc' = [pc EXCEPT ![h] = "evaluate"]
    /\ UNCHANGED <<enabled, call, now, alerts, undelivered>>
    /\ UNCHANGED <<normVars, upVars, detVars, initVars, qVars, iocVars, hookVars, lamVars, aiVars, retryVars, poolVars>>

\* mutant: the alert is sent whatever shouldAlert says
Evaluate_AlertsRegardless(h) ==
    /\ pc[h] = "evaluate"
    /\ LET m == CampaignMatchOf(call[h].row, call[h].risk, now)
       IN  IF call[h].via = "direct"
           THEN /\ call' = [call EXCEPT ![h] = Returned(call[h], "match", m)]
                /\ pc' = [pc EXCEPT ![h] = "done"]
           ELSE /\ call' = [call EXCEPT ![h].match = m]
                /\ pc' = [pc EXCEPT ![h] = "details"]
    /\ UNCHANGED <<enabled, campaigns, rowLock, now, alerts, tracked, seenRcpt, worstRisk, undelivered>>
    /\ UNCHANGED <<normVars, upVars, detVars, initVars, qVars, iocVars, hookVars, lamVars, aiVars, retryVars, poolVars>>

\* after COMMIT: hoursActive and shouldAlert from the returned row and the
\* clock; processDetection goes on to the alert only when shouldAlert
Evaluate(h) ==
    /\ pc[h] = "evaluate"
    /\ LET m == CampaignMatchOf(call[h].row, call[h].risk, now)
       IN  IF call[h].via = "direct"
           THEN /\ call' = [call EXCEPT ![h] = Returned(call[h], "match", m)]
                /\ pc' = [pc EXCEPT ![h] = "done"]
           ELSE IF m.shouldAlert
           THEN /\ call' = [call EXCEPT ![h].match = m]
                /\ pc' = [pc EXCEPT ![h] = "details"]
           ELSE /\ call' = [call EXCEPT ![h] = Returned(call[h], "false", NoMatch)]
                /\ pc' = [pc EXCEPT ![h] = "done"]
    /\ UNCHANGED <<enabled, campaigns, rowLock, now, alerts, tracked, seenRcpt, worstRisk, undelivered>>
    /\ UNCHANGED <<normVars, upVars, detVars, initVars, qVars, iocVars, hookVars, lamVars, aiVars, retryVars, poolVars>>

\* IntelligenceDatabaseService.getCampaignDetails(match.campaignId)
GetCampaignDetails(h) ==
    /\ pc[h] = "details"
    /\ IF call[h].match.campaignId \notin DOMAIN campaigns
       THEN /\ call' = [call EXCEPT ![h] = Returned(call[h], "false", NoMatch)]
            /\ pc' = [pc EXCEPT ![h] = "done"]
       ELSE /\ call' = [call EXCEPT ![h].row = campaigns[call[h].match.campaignId]]
            /\ pc' = [pc EXCEPT ![h] = "send"]
    /\ UNCHANGED <<enabled, campaigns, rowLock, now, alerts, tracked, seenRcpt, worstRisk, undelivered>>
    /\ UNCHANGED <<normVars, upVars, detVars, initVars, qVars, iocVars, hookVars, lamVars, aiVars, retryVars, poolVars>>

\* CampaignAlertService.sendCampaignAlert: the alert is handed to SES
SendCampaignAlert(h) ==
    /\ pc[h] = "send"
    /\ alerts' = Append(alerts, [class |-> call[h].class, at |-> now])
    /\ undelivered' = undelivered \ {call[h].class}
    /\ pc' = [pc EXCEPT ![h] = "mark"]
    /\ UNCHANGED <<enabled, campaigns, rowLock, call, now, tracked, seenRcpt, worstRisk>>
    /\ UNCHANGED <<normVars, upVars, detVars, initVars, qVars, iocVars, hookVars, lamVars, aiVars, retryVars, poolVars>>

\* mutant: the alert is not recorded on the campaign
MarkCampaignAlerted_NoStamp(h) ==
    /\ pc[h] = "mark"
    /\ rowLock[call[h].match.campaignId] = 0
    /\ call' = [call EXCEPT ![h] = Returned(call[h], "true", NoMatch)]
    /\ pc' = [pc EXCEPT ![h] = "done"]
    /\ UNCHANGED <<enabled, campaigns, rowLock, now, alerts, tracked, seenRcpt, worstRisk, undelivered>>
    /\ UNCHANGED <<normVars, upVars, detVars, initVars, qVars, iocVars, hookVars, lamVars, aiVars, retryVars, poolVars>>

\* IntelligenceDatabaseService.markCampaignAlerted: one UPDATE statement, which
\* waits while an open transaction holds the row
MarkCampaignAlerted(h) ==
    /\ pc[h] = "mark"
    /\ rowLock[call[h].match.campaignId] = 0
    /\ campaigns' = [campaigns EXCEPT ![call[h].match.campaignId].alertSentAt = now]
    /\ call' = [call EXCEPT ![h] = Returned(call[h], "true", NoMatch)]
    /\ pc' = [pc EXCEPT ![h] = "done"]
    /\ UNCHANGED <<enabled, rowLock, now, alerts, tracked, seenRcpt, worstRisk, undelivered>>
    /\ UNCHANGED <<normVars, upVars, detVars, initVars, qVars, iocVars, hookVars, lamVars, aiVars, retryVars, poolVars>>

\* mutant: a failed COMMIT leaves the written row in the table
CallFails_KeepsWrite(h) ==
    /\ pc[h] \in {"upsert", "commit", "details", "send", "mark"}
    /\ rowLock' = [s \in SigSpace |-> IF rowLock[s] = h THEN 0 ELSE rowLock[s]]
    /\ campaigns' = IF pc[h] = "commit"
                     THEN [s \in DOMAIN campaigns \cup {call[h].sig} |->
                             IF s = call[h].sig THEN call[h].row ELSE campaigns[s]]
                     ELSE campaigns
    /\ call' = [call EXCEPT ![h] =
                  Returned(call[h], IF call[h].via = "direct" THEN "threw" ELSE "false",
                           NoMatch)]
    /\ undelivered' = IF pc[h] = "send" THEN undelivered \cup {call[h].class}
                                        ELSE undelivered
    /\ pc' = [pc EXCEPT ![h] = "done"]
    /\ UNCHANGED <<enabled, now, alerts, tracked, seenRcpt, worstRisk>>
    /\ UNCHANGED <<normVars, upVars, detVars, initVars, qVars, iocVars, hookVars, lamVars, aiVars, retryVars, poolVars>>

\* mutant: processDetection lets the error through
CallFails_Rethrows(h) ==
    /\ pc[h] \in {"upsert", "commit", "details", "send", "mark"}
    /\ rowLock' = [s \in SigSpace |-> IF rowLock[s] = h THEN 0 ELSE rowLock[s]]
    /\ call' = [call EXCEPT ![h] = Returned(call[h], "threw", NoMatch)]
    /\ undelivered' = IF pc[h] = "send" THEN undelivered \cup {call[h].class}
                                        ELSE undelivered
    /\ pc' = [pc EXCEPT ![h] = "done"]
    /\ UNCHANGED <<enabled, campaigns, now, alerts, tracked, seenRcpt, worstRisk>>
    /\ UNCHANGED <<normVars, upVars, detVars, initVars, qVars, iocVars, hookVars, lamVars, aiVars, retryVars, poolVars>>

\* mutant: the campaign is marked as alerted although the delivery failed
CallFails_MarksAnyway(h) ==
    /\ pc[h] \in {"upsert", "commit", "details", "send", "mark"}
    /\ rowLock' = [s \in SigSpace |-> IF rowLock[s] = h THEN 0 ELSE rowLock[s]]
    /\ campaigns' = IF pc[h] = "send"
                     THEN [campaigns EXCEPT ![call[h].match.campaignId].alertSentAt = now]
                     ELSE campaigns
    /\ call' = [call EXCEPT ![h] =
                  Returned(call[h], IF call[h].via = "direct" THEN "threw" ELSE "false",
                           NoMatch)]
    /\ undelivered' = IF pc[h] = "send" THEN undelivered \cup {call[h].class}
                                        ELSE undelivered
    /\ pc' = [pc EXCEPT ![h] = "done"]
    /\ UNCHANGED <<enabled, now, alerts, tracked, seenRcpt, worstRisk>>
    /\ UNCHANGED <<normVars, upVars, detVars, initVars, qVars, iocVars, hookVars, lamVars, aiVars, retryVars, poolVars>>

\* a store call or the SES call rejects.  Inside trackCampaignDetection the
\* transaction is rolled back and the error rethrown (index.ts:789-797);
\* processDetection catches every error and returns false (part_005:81-86)
CallFails(h) ==
    /\ pc[h] \in {"upsert", "commit", "details", "send", "mark"}
    /\ rowLock' = [s \in SigSpace |-> IF rowLock[s] = h THEN 0 ELSE rowLock[s]]
    /\ call' = [call EXCEPT ![h] =
                  Returned(call[h], IF call[h].via = "direct" THEN "threw" ELSE "false",
                           NoMatch)]
    /\ undelivered' = IF pc[h] = "send" THEN undelivered \cup {call[h].class}
                                        ELSE undelivered
    /\ pc' = [pc EXCEPT ![h] = "done"]
    /\ UNCHANGED <<enabled, campaigns, now, alerts, tracked, seenRcpt, worstRisk>>
    /\ UNCHANGED <<normVars, upVars, detVars, initVars, qVars, iocVars, hookVars, lamVars, aiVars, retryVars, poolVars>>

\* time passes between calls
Tick ==
    /\ \A h \in Handlers : pc[h] \in {"idle", "done"}
    /\ \A w \in Writers : wpc[w] = "idle"
    /\ \E t \in Times : t > now /\ now' = t
    /\ UNCHANGED <<enabled, campaigns, rowLock, pc, call, alerts, tracked, seenRcpt, worstRisk, undelivered>>
    /\ UNCHANGED <<normVars, upVars, detVars, initVars, qVars, iocVars, hookVars, lamVars, aiVars, retryVars, poolVars>>

\* one step of handler h
Step(h) ==
    \/ \E e \in Emails, k \in RiskLevels :
          \/ ProcessDetection(h, e, k)
          \/ TrackCampaignDetection(h, e, k)
    \/ Upsert(h)
    \/ Commit(h)
    \/ Evaluate(h)
    \/ GetCampaignDetails(h)
    \/ SendCampaignAlert(h)
    \/ MarkCampaignAlerted(h)
    \/ CallFails(h)

\* concurrent handlers: every interleaving of their steps, all within one
\* reading of the clock
Next == \E h \in Handlers : Step(h)

Spec == Init /\ [][Next]_vars

\* sequential callers: one call at a time
NextSeq == Step(1) \/ Tick

SpecSeq == Init /\ [][NextSeq]_vars

\* the alert service called for one email after the other, store and SES
\* answering every call
NextScenario ==
    \/ \E e \in Emails, k \in RiskLevels : ProcessDetection(1, e, k)
    \/ Upsert(1)
    \/ Commit(1)
    \/ Evaluate(1)
    \/ GetCampaignDetails(1)
    \/ SendCampaignAlert(1)
    \/ MarkCampaignAlerted(1)
    \/ Tick

SpecScenario == Init /\ [][NextScenario]_vars

(***************************************************************************)
(* The calls of upsertIndicator and upsertPattern                          *)
(***************************************************************************)
\* upsert statements executed or on their way to the store
Upserts == Len(executed) + Cardinality({w \in Writers : wpc[w] = "bound"})

\* upsertIndicator up to pool.query: the hash and the query parameters;
\* the record's firstSeenAt and lastSeenAt are the caller's clock
UpsertIndicator(w, ind) ==
    /\ wpc[w] = "idle"
    /\ Upserts < MaxUpserts
    /\ wpc' = [wpc EXCEPT ![w] = "bound"]
    /\ wcall' = [wcall EXCEPT ![w] =
                   [op |-> "indicator",
                    indicatorType |-> ind.indicatorType,
                    indicatorValue |-> ind.indicatorValue,
                    indicatorHash |-> hashIndicator(ind.indicatorType, ind.indicatorValue),
                    confidenceScore |-> ind.confidenceScore,
                    severity |-> ind.severity,
                    timesSeen |-> ind.timesSeen,
                    firstSeenAt |-> now,
                    lastSeenAt |-> now,
                    isActive |-> ind.isActive,
                    expiresAt |-> ind.expiresAt,
                    metadata |-> ind.metadata,
                    returned |-> <<>>]]
    /\ UNCHANGED <<threat_indicators, detected_patterns, executed>>
    /\ UNCHANGED <<normVars, campVars, detVars, initVars, qVars, iocVars, hookVars, lamVars, aiVars, retryVars, poolVars>>

\* upsertPattern up to pool.query: the query parameters
UpsertPattern(w, p) ==
    /\ wpc[w] = "idle"
    /\ Upserts < MaxUpserts
    /\ wpc' = [wpc EXCEPT ![w] = "bound"]
    /\ wcall' = [wcall EXCEPT ![w] =
                   [op |-> "pattern",
                    patternName |-> p.patternName,
                    patternType |-> p.patternType,
                    patternCriteria |-> p.patternCriteria,
                    matchCount |-> p.matchCount,
                    isConfirmedThreat |-> p.isConfirmedThreat,
                    firstDetectedAt |-> now,
                    lastDetectedAt |-> now,
                    returned |-> <<>>]]
    /\ UNCHANGED <<threat_indicators, detected_patterns, executed>>
    /\ UNCHANGED <<normVars, campVars, detVars, initVars, qVars, iocVars, hookVars, lamVars, aiVars, retryVars, poolVars>>

\* the store executes the statement of writer w (one statement, one
\* transaction) and the call returns the id of the row, which the ghost
\* keeps with the statement
ExecuteUpsert(w) ==
    /\ wpc[w] = "bound"
    /\ IF wcall[w].op = "indicator"
       THEN LET row == UpsertIndicatorRow(threat_indicators, wcall[w], now)
            IN  /\ threat_indicators' =
                      [k \in DOMAIN threat_indicators \cup {IndicatorKey(wcall[w])} |->
                          IF k = IndicatorKey(wcall[w]) THEN row ELSE threat_indicators[k]]
                /\ executed' = Append(executed, [wcall[w] EXCEPT !.returned = row.id])
                /\ UNCHANGED detected_patterns
       ELSE LET row == UpsertPatternRow(detected_patterns, wcall[w], now)
            IN  /\ detected_patterns' =
                      [k \in DOMAIN detected_patterns \cup {PatternKey(wcall[w])} |->
                          IF k = PatternKey(wcall[w]) THEN row ELSE detected_patterns[k]]
                /\ executed' = Append(executed, [wcall[w] EXCEPT !.returned = row.id])
                /\ UNCHANGED threat_indicators
    /\ wcall' = [wcall EXCEPT ![w] = NoCall]
    /\ wpc' = [wpc EXCEPT ![w] = "idle"]
    /\ UNCHANGED <<normVars, campVars, detVars, initVars, qVars, iocVars, hookVars, lamVars, aiVars, retryVars, poolVars>>

\* pool.query rejects (the store is unreachable): the call throws, no row changes
QueryFails(w) ==
    /\ wpc[w] = "bound"
    /\ wcall' = [wcall EXCEPT ![w] = NoCall]
    /\ wpc' = [wpc EXCEPT ![w] = "idle"]
    /\ UNCHANGED <<threat_indicators, detected_patterns, executed>>
    /\ UNCHANGED <<normVars, campVars, detVars, initVars, qVars, iocVars, hookVars, lamVars, aiVars, retryVars, poolVars>>

\* one step of writer w
WriterStep(w) ==
    \/ \E ind \in IndicatorInputs : UpsertIndicator(w, ind)
    \/ \E p \in PatternInputs : UpsertPattern(w, p)
    \/ ExecuteUpsert(w)
    \/ QueryFails(w)

NextUpsert == (\E w \in Writers : WriterStep(w)) \/ Tick

InitUpsert ==
    /\ subject = <<>>
    /\ once = NotYet
    /\ twice = NotYet
    /\ variant = <<>>
    /\ onceVariant = NotYet
    /\ enabled = TRUE
    /\ CampInit
    /\ UpInit
    /\ DetInit
    /\ SchemaInit
    /\ QueryInit
    /\ ExtractInit
    /\ HookInit
    /\ HandlerInit
    /\ AiInit
    /\ RetryInit
    /\ PoolInit

SpecUpsert == InitUpsert /\ [][NextUpsert]_vars

(***************************************************************************)
(* The calls of detectPatterns                                             *)
(***************************************************************************)
\* the variables of the campaign store and of the upsert callers that the
\* detector leaves alone
campRest == <<enabled, campaigns, rowLock, pc, call, alerts, tracked, seenRcpt,
              worstRisk, undelivered>>
upRest == <<threat_indicators, wpc, wcall, executed>>

\* detectPatterns after the detector at position c.detector has returned:
\* the next detector that has something to search for awaits its search,
\* or the call returns the patterns found
Continue(c) ==
    LET j == NextDetector(c.emailData, c.detector + 1)
    IN  IF j <= Len(Detectors)
        THEN /\ dpc' = "search"
             /\ dcall' = [c EXCEPT !.detector = j, !.matches = <<>>]
             /\ history' = history
        ELSE /\ dpc' = "done"
             /\ dcall' = [c EXCEPT !.detector = 0, !.matches = <<>>]
             /\ history' = history \o c.patterns

\* detectPatterns(emailData, analysis) up to its first await
DetectPatterns(e, v) ==
    /\ dpc \in {"idle", "done", "threw"}
    /\ detectCalls < MaxDetections
    /\ detectCalls' = detectCalls + 1
    /\ LET c == [NoDetection EXCEPT !.emailData = e, !.isPhishing = v,
                                    !.before = detected_patterns]
       IN  IF ~v
           THEN /\ dpc' = "done"
                /\ dcall' = c
                /\ history' = history
           ELSE Continue(c)
    /\ UNCHANGED <<email_analyses, detected_patterns, now>>
    /\ UNCHANGED <<normVars, campRest, upRest, initVars, qVars, iocVars, hookVars, lamVars, aiVars, retryVars, poolVars>>

\* searchAnalyses resolves: the detector counts its matches and either
\* goes on to upsertPattern or returns null
SearchReturns ==
    /\ dpc = "search"
    /\ LET d == Detectors[dcall.detector]
           m == RecentMatches(d, dcall.emailData, email_analyses, now)
           c == [dcall EXCEPT !.counted[dcall.detector] = Len(m)]
       IN  IF ReachedThreshold(Len(m))
           THEN /\ dpc' = "upsert"
                /\ dcall' = [c EXCEPT !.matches = m]
                /\ history' = history
           ELSE Continue(c)
    /\ UNCHANGED <<email_analyses, detectCalls, detected_patterns, now>>
    /\ UNCHANGED <<normVars, campRest, upRest, initVars, qVars, iocVars, hookVars, lamVars, aiVars, retryVars, poolVars>>

\* upsertPattern resolves: the row is written and the detector returns
\* its pattern
UpsertReturns ==
    /\ dpc = "upsert"
    /\ LET d == Detectors[dcall.detector]
           q == PatternRecord(d, dcall.emailData, dcall.matches, now)
           row == UpsertPatternRow(detected_patterns, q, now)
       IN  /\ detected_patterns' =
                 [k \in DOMAIN detected_patterns \cup {PatternKey(q)} |->
                     IF k = PatternKey(q) THEN row ELSE detected_patterns[k]]
           /\ Continue([dcall EXCEPT
                          !.patterns = Append(@, DetectedPattern(d, dcall.emailData, dcall.matches)),
                          !.upserted = @ \cup {d}])
    /\ UNCHANGED <<email_analyses, detectCalls, now>>
    /\ UNCHANGED <<normVars, campRest, upRest, initVars, qVars, iocVars, hookVars, lamVars, aiVars, retryVars, poolVars>>

\* the awaited store call rejects: nothing catches it, the detector and
\* detectPatterns reject with it
StoreCallFails ==
    /\ dpc \in {"search", "upsert"}
    /\ dpc' = "threw"
    /\ UNCHANGED <<email_analyses, dcall, history, detectCalls, detected_patterns, now>>
    /\ UNCHANGED <<normVars, campRest, upRest, initVars, qVars, iocVars, hookVars, lamVars, aiVars, retryVars, poolVars>>

\* storeAnalysis: the analysis of an email is stored, created_at = NOW()
StoreAnalysis(e, v) ==
    /\ dpc \in {"idle", "done", "threw"}
    /\ Len(email_analyses) < MaxAnalyses
    /\ email_analyses' = Append(email_analyses, AnalysisRow(e, v, now))
    /\ UNCHANGED <<dpc, dcall, history, detectCalls, detected_patterns, now>>
    /\ UNCHANGED <<normVars, campRest, upRest, initVars, qVars, iocVars, hookVars, lamVars, aiVars, retryVars, poolVars>>

\* time passes between the calls
Elapse ==
    /\ dpc \in {"idle", "done", "threw"}
    /\ \E t \in DetectTimes : t > now /\ now' = t
    /\ UNCHANGED <<email_analyses, dpc, dcall, history, detectCalls, detected_patterns>>
    /\ UNCHANGED <<normVars, campRest, upRest, initVars, qVars, iocVars, hookVars, lamVars, aiVars, retryVars, poolVars>>

NextDetect ==
    \/ \E e \in EmailInputs, v \in BOOLEAN : DetectPatterns(e, v)
    \/ SearchReturns
    \/ UpsertReturns
    \/ StoreCallFails
    \/ \E a \in StoredInputs : StoreAnalysis(a[1], a[2])
    \/ Elapse

InitDetect ==
    /\ subject = <<>>
    /\ once = NotYet
    /\ twice = NotYet
    /\ variant = <<>>
    /\ onceVariant = NotYet
    /\ enabled = TRUE
    /\ CampInit
    /\ UpInit
    /\ DetInit
    /\ SchemaInit
    /\ QueryInit
    /\ ExtractInit
    /\ HookInit
    /\ HandlerInit
    /\ AiInit
    /\ RetryInit
    /\ PoolInit

SpecDetect == InitDetect /\ [][NextDetect]_vars

(***************************************************************************)
(* Store operations and initialize                                         *)
(***************************************************************************)
\* a store operation begins with `await this.initialize()`: initialize
\* returns at once when the flag is set, else it awaits pool.connect()
StartOperation(o) ==
    /\ opc[o] \in {"idle", "failed"}
    /\ started < MaxOps
    /\ started' = started + 1
    /\ opc' = [opc EXCEPT ![o] = IF initialized THEN "query" ELSE "connect"]
    /\ UNCHANGED <<initialized, schemaRuns>>
    /\ UNCHANGED <<normVars, campVars, upVars, detVars, qVars, iocVars, hookVars, lamVars, aiVars, retryVars, poolVars>>

\* pool.connect resolves: BEGIN and the CREATE statements are sent
Connected(o) ==
    /\ opc[o] = "connect"
    /\ opc' = [opc EXCEPT ![o] = "schema"]
    /\ UNCHANGED <<initialized, schemaRuns, started>>
    /\ UNCHANGED <<normVars, campVars, upVars, detVars, qVars, iocVars, hookVars, lamVars, aiVars, retryVars, poolVars>>

\* COMMIT resolves: the flag is set, the client released, and the
\* operation goes on to its own query
SchemaCommits(o) ==
    /\ opc[o] = "schema"
    /\ schemaRuns' = schemaRuns + 1
    /\ initialized' = TRUE
    /\ opc' = [opc EXCEPT ![o] = "query"]
    /\ UNCHANGED started
    /\ UNCHANGED <<normVars, campVars, upVars, detVars, qVars, iocVars, hookVars, lamVars, aiVars, retryVars, poolVars>>

\* mutant: the failure is swallowed and the operation goes on to its query
InitializeFails_Swallowed(o) ==
    /\ opc[o] \in {"connect", "schema"}
    /\ opc' = [opc EXCEPT ![o] = "query"]
    /\ UNCHANGED <<initialized, schemaRuns, started>>
    /\ UNCHANGED <<normVars, campVars, upVars, detVars, qVars, iocVars, hookVars, lamVars, aiVars, retryVars, poolVars>>

\* pool.connect or a statement of the transaction rejects: ROLLBACK, the
\* error is rethrown and the operation rejects with it
InitializeFails(o) ==
    /\ opc[o] \in {"connect", "schema"}
    /\ opc' = [opc EXCEPT ![o] = "failed"]
    /\ UNCHANGED <<initialized, schemaRuns, started>>
    /\ UNCHANGED <<normVars, campVars, upVars, detVars, qVars, iocVars, hookVars, lamVars, aiVars, retryVars, poolVars>>

\* the operation's own query ends
OperationEnds(o) ==
    /\ opc[o] = "query"
    /\ opc' = [opc EXCEPT ![o] = "idle"]
    /\ UNCHANGED <<initialized, schemaRuns, started>>
    /\ UNCHANGED <<normVars, campVars, upVars, detVars, qVars, iocVars, hookVars, lamVars, aiVars, retryVars, poolVars>>

OperationStep(o) ==
    \/ StartOperation(o)
    \/ Connected(o)
    \/ SchemaCommits(o)
    \/ InitializeFails(o)
    \/ OperationEnds(o)

NextInit == \E o \in Ops : OperationStep(o)

InitStore ==
    /\ subject = <<>>
    /\ once = NotYet
    /\ twice = NotYet
    /\ variant = <<>>
    /\ onceVariant = NotYet
    /\ enabled = TRUE
    /\ CampInit
    /\ UpInit
    /\ DetInit
    /\ SchemaInit
    /\ QueryInit
    /\ ExtractInit
    /\ HookInit
    /\ HandlerInit
    /\ AiInit
    /\ RetryInit
    /\ PoolInit

SpecInit == InitStore /\ [][NextInit]_vars

(***************************************************************************)
(* The calls of searchAnalyses and getActiveIndicators                     *)
(***************************************************************************)
\* searchAnalyses(filters): no filter value is rejected, the query runs
SearchAnalyses(f) ==
    /\ query' = [op |-> "searchAnalyses", filters |-> f, at |-> now]
    /\ returnedRows' = searchAnalysesRuns(tables.email_analyses, f)
    /\ UNCHANGED tables
    /\ UNCHANGED <<normVars, campVars, upVars, detVars, initVars, iocVars, hookVars, lamVars, aiVars, retryVars, poolVars>>

\* getActiveIndicators(type, limit)
GetActiveIndicators(type, limit) ==
    /\ query' = [op |-> "getActiveIndicators", type |-> type, limit |-> limit, at |-> now]
    /\ returnedRows' = getActiveIndicators(tables.threat_indicators, type, limit, now)
    /\ UNCHANGED tables
    /\ UNCHANGED <<normVars, campVars, upVars, detVars, initVars, iocVars, hookVars, lamVars, aiVars, retryVars, poolVars>>

NextQuery ==
    \/ \E l \in LimitInputs, o \in OffsetInputs, p \in {<<>>, <<TRUE>>} :
          SearchAnalyses(Filters(<<>>, p, <<>>, l, o))
    \/ \E type \in {<<>>, <<"domain">>}, l \in LimitInputs : GetActiveIndicators(type, l)
    \/ Tick

InitQuery ==
    /\ subject = <<>>
    /\ once = NotYet
    /\ twice = NotYet
    /\ variant = <<>>
    /\ onceVariant = NotYet
    /\ enabled = TRUE
    /\ CampInit
    /\ UpInit
    /\ DetInit
    /\ SchemaInit
    /\ tables \in TableInputs
    /\ query = NoQuery
    /\ returnedRows = <<>>
    /\ ExtractInit
    /\ HookInit
    /\ HandlerInit
    /\ AiInit
    /\ RetryInit
    /\ PoolInit

SpecQuery == InitQuery /\ [][NextQuery]_vars

(***************************************************************************)
(* The calls of extractIOCs on one email and verdict.  extracted keeps     *)
(* what the call returned at each threshold.                               *)
(***************************************************************************)
\* { ...DEFAULT_OPTIONS, ...options }.minConfidence ?? 0
EffectiveMinConfidence(minConfidence) ==
    IF minConfidence = <<>> THEN DefaultMinConfidence ELSE minConfidence[1]

\* extractIOCs(emailData, analysis, {minConfidence})
ExtractIOCs(minConfidence) ==
    LET m == EffectiveMinConfidence(minConfidence)
    IN  /\ extraction.op # "none"
        /\ extraction' = [extraction EXCEPT !.op = "extractIOCs",
                                            !.minConfidence = minConfidence]
        /\ extracted' = [extracted EXCEPT
                            ![m] = extractIOCs(extraction.emailData, extraction.analysis, m, now)]
        /\ UNCHANGED <<normVars, campVars, upVars, detVars, initVars, qVars, hookVars, lamVars, aiVars, retryVars, poolVars>>

NextExtract ==
    \E minConfidence \in {<<>>} \cup {<<m>> : m \in Thresholds} :
        ExtractIOCs(minConfidence)

\* an email and its verdict are at hand
InitExtract ==
    /\ subject = <<>>
    /\ once = NotYet
    /\ twice = NotYet
    /\ variant = <<>>
    /\ onceVariant = NotYet
    /\ enabled = TRUE
    /\ CampInit
    /\ UpInit
    /\ DetInit
    /\ SchemaInit
    /\ QueryInit
    /\ \E emailData \in ExtractionInputs, analysis \in VerdictInputs :
          extraction = [op |-> "ready", emailData |-> emailData,
                        analysis |-> analysis, minConfidence |-> <<>>]
    /\ extracted = [m \in Thresholds |-> NotYet]
    /\ HookInit
    /\ HandlerInit
    /\ AiInit
    /\ RetryInit
    /\ PoolInit

SpecExtract == InitExtract /\ [][NextExtract]_vars

(***************************************************************************)
(* The send calls of WebhookService and the deliveries they start          *)
(***************************************************************************)
\* sendThreatDetected(analysisId, emailData, analysis)
SendThreatDetected(analysis) ==
    /\ sendCall.status = "resolved"
    /\ IF ~analysis.isPhishing
       THEN /\ sendCall' = [op |-> "sendThreatDetected", event |-> "none", status |-> "resolved"]
            /\ delivery' = <<>>
       ELSE DeliverToMatchingWebhooks("sendThreatDetected", ThreatEvent(analysis))
    /\ UNCHANGED <<webhooks, nodeEnv>>
    /\ UNCHANGED <<normVars, campVars, upVars, detVars, initVars, qVars, iocVars, lamVars, aiVars, retryVars, poolVars>>

\* sendPatternDetected(patterns), for a list of n patterns
SendPatternDetected(n) ==
    /\ sendCall.status = "resolved"
    /\ IF n = 0
       THEN /\ sendCall' = [op |-> "sendPatternDetected", event |-> "none", status |-> "resolved"]
            /\ delivery' = <<>>
       ELSE DeliverToMatchingWebhooks("sendPatternDetected", "pattern.detected")
    /\ UNCHANGED <<webhooks, nodeEnv>>
    /\ UNCHANGED <<normVars, campVars, upVars, detVars, initVars, qVars, iocVars, lamVars, aiVars, retryVars, poolVars>>

\* axios.post resolves: deliverToWebhook returns success
PostSucceeds(k) ==
    /\ delivery[k].pc = "posting"
    /\ delivery' = [delivery EXCEPT ![k].pc = "settled",
                        ![k].outcome = [success |-> TRUE, error |-> "undefined",
                                        retries |-> delivery[k].attempt]]
    /\ UNCHANGED <<webhooks, sendCall, nodeEnv>>
    /\ UNCHANGED <<normVars, campVars, upVars, detVars, initVars, qVars, iocVars, lamVars, aiVars, retryVars, poolVars>>

\* mutant: a delivery that runs out of attempts rejects, and the others
\* are given up
PostFails_AbortsOthers(k, error) ==
    /\ delivery[k].pc = "posting"
    /\ IF delivery[k].attempt < MaxRetries(webhooks[delivery[k].webhook]) - 1
       THEN delivery' = [delivery EXCEPT ![k].pc = "sleeping"]
       ELSE delivery' = [j \in DOMAIN delivery |->
                IF delivery[j].pc = "settled" THEN delivery[j]
                ELSE [delivery[j] EXCEPT !.pc = "settled",
                        !.outcome = Exhausted(delivery[j].attempt, error)]]
    /\ UNCHANGED <<webhooks, sendCall, nodeEnv>>
    /\ UNCHANGED <<normVars, campVars, upVars, detVars, initVars, qVars, iocVars, lamVars, aiVars, retryVars, poolVars>>

\* axios.post rejects (an error status, a refused connection, the timeout):
\* the catch notes the error and sleeps before the next attempt, or the
\* loop ends and deliverToWebhook returns the failure
PostFails(k, error) ==
    /\ delivery[k].pc = "posting"
    /\ IF delivery[k].attempt < MaxRetries(webhooks[delivery[k].webhook]) - 1
       THEN delivery' = [delivery EXCEPT ![k].pc = "sleeping"]
       ELSE delivery' = [delivery EXCEPT ![k].pc = "settled",
                ![k].outcome = Exhausted(MaxRetries(webhooks[delivery[k].webhook]), error)]
    /\ UNCHANGED <<webhooks, sendCall, nodeEnv>>
    /\ UNCHANGED <<normVars, campVars, upVars, detVars, initVars, qVars, iocVars, lamVars, aiVars, retryVars, poolVars>>

\* the backoff sleep ends: the next attempt posts
SleepEnds(k) ==
    /\ delivery[k].pc = "sleeping"
    /\ delivery' = [delivery EXCEPT ![k].pc = "posting",
                        ![k].attempt = delivery[k].attempt + 1,
                        ![k].posts = delivery[k].posts + 1]
    /\ UNCHANGED <<webhooks, sendCall, nodeEnv>>
    /\ UNCHANGED <<normVars, campVars, upVars, detVars, initVars, qVars, iocVars, lamVars, aiVars, retryVars, poolVars>>

\* Promise.allSettled resolves once every delivery has settled, and the
\* send call returns
AllSettled ==
    /\ sendCall.status = "pending"
    /\ \A k \in DOMAIN delivery : delivery[k].pc = "settled"
    /\ sendCall' = [sendCall EXCEPT !.status = "resolved"]
    /\ UNCHANGED <<webhooks, delivery, nodeEnv>>
    /\ UNCHANGED <<normVars, campVars, upVars, detVars, initVars, qVars, iocVars, lamVars, aiVars, retryVars, poolVars>>

\* addWebhook(config), between two send calls; the record of the
\* finished call is dropped
AddWebhook(config) ==
    /\ sendCall.status = "resolved"
    /\ Len(webhooks) < MaxWebhooks
    /\ webhooks' = IF config.enabled THEN Append(webhooks, config) ELSE webhooks
    /\ delivery' = <<>>
    /\ sendCall' = NoSend
    /\ UNCHANGED nodeEnv
    /\ UNCHANGED <<normVars, campVars, upVars, detVars, initVars, qVars, iocVars, lamVars, aiVars, retryVars, poolVars>>

\* removeWebhook(url), between two send calls
RemoveWebhook(url) ==
    /\ sendCall.status = "resolved"
    /\ LET Other(w) == w.url # url
       IN  webhooks' = SelectSeq(webhooks, Other)
    /\ delivery' = <<>>
    /\ sendCall' = NoSend
    /\ UNCHANGED nodeEnv
    /\ UNCHANGED <<normVars, campVars, upVars, detVars, initVars, qVars, iocVars, lamVars, aiVars, retryVars, poolVars>>

NextWebhook ==
    \/ \E config \in ConfigInputs : AddWebhook(config)
    \/ \E url \in {"a", "c", "https://169.254.169.254/latest"} : RemoveWebhook(url)
    \/ \E analysis \in VerdictInputs : SendThreatDetected(analysis)
    \/ \E n \in {0, 2} : SendPatternDetected(n)
    \/ \E k \in DOMAIN delivery : PostSucceeds(k)
    \/ \E k \in DOMAIN delivery, error \in {"status 500", "timeout"} : PostFails(k, error)
    \/ \E k \in DOMAIN delivery : SleepEnds(k)
    \/ AllSettled

\* a service constructed with some webhooks
InitWebhook ==
    /\ subject = <<>>
    /\ once = NotYet
    /\ twice = NotYet
    /\ variant = <<>>
    /\ onceVariant = NotYet
    /\ enabled = TRUE
    /\ CampInit
    /\ UpInit
    /\ DetInit
    /\ SchemaInit
    /\ QueryInit
    /\ ExtractInit
    /\ nodeEnv \in {"production", "development"}
    /\ \E configs \in WebhookInputs : webhooks = ConstructWebhooks(configs)
    /\ delivery = <<>>
    /\ sendCall = NoSend
    /\ HandlerInit
    /\ AiInit
    /\ RetryInit
    /\ PoolInit

SpecWebhook == InitWebhook /\ [][NextWebhook]_vars

(***************************************************************************)
(* One invocation of the Lambda handler after the other                    *)
(***************************************************************************)
\* handler(event, context) up to the await of initializeServices()
Invoke ==
    /\ hpc \in {"idle", "returned"}
    /\ hpc' = "initializing"
    /\ emailEvents' = <<>>
    /\ processingResults' = <<>>
    /\ UNCHANGED <<response, cachedServices>>
    /\ UNCHANGED <<normVars, campVars, upVars, detVars, initVars, qVars, iocVars, hookVars, aiVars, retryVars, poolVars>>

\* mutant: the handler's catch answers with status 500
OuterCatch_Status500(error) ==
    /\ hpc' = "returned"
    /\ response' = createResponse(500, [success |-> FALSE, error |-> error])

\* the catch of the handler: the error is logged and answered with 200
OuterCatch(error) ==
    /\ hpc' = "returned"
    /\ response' = createResponse(200, [success |-> FALSE, error |-> error])

\* initializeServices() returns the cached services or builds them
InitializeServices ==
    /\ hpc = "initializing"
    /\ hpc' = "parsing"
    /\ cachedServices' = TRUE
    /\ UNCHANGED <<emailEvents, processingResults, response>>
    /\ UNCHANGED <<normVars, campVars, upVars, detVars, initVars, qVars, iocVars, hookVars, aiVars, retryVars, poolVars>>

\* loadConfig or the construction of a service throws; nothing is cached
InitializeServicesThrows ==
    /\ hpc = "initializing"
    /\ ~cachedServices
    /\ OuterCatch("initializeServices")
    /\ UNCHANGED <<emailEvents, processingResults, cachedServices>>
    /\ UNCHANGED <<normVars, campVars, upVars, detVars, initVars, qVars, iocVars, hookVars, aiVars, retryVars, poolVars>>

\* parseEmailEvents(event) returns: without events the handler answers at
\* once, else the loop starts
ParseEmailEvents(parsed) ==
    /\ hpc = "parsing"
    /\ emailEvents' = parsed
    /\ IF Len(parsed) = 0
       THEN /\ hpc' = "returned"
            /\ response' = createResponse(200, [success |-> TRUE,
                                                message |-> "No email events to process"])
       ELSE /\ hpc' = "looping"
            /\ UNCHANGED response
    /\ UNCHANGED <<processingResults, cachedServices>>
    /\ UNCHANGED <<normVars, campVars, upVars, detVars, initVars, qVars, iocVars, hookVars, aiVars, retryVars, poolVars>>

\* parseEmailEvents(event) throws
ParseEmailEventsThrows ==
    /\ hpc = "parsing"
    /\ OuterCatch("parseEmailEvents")
    /\ UNCHANGED <<emailEvents, processingResults, cachedServices>>
    /\ UNCHANGED <<normVars, campVars, upVars, detVars, initVars, qVars, iocVars, hookVars, aiVars, retryVars, poolVars>>

\* the loop takes the next email event: one without msg is recorded as an
\* error, one with msg is handed to processEmailEvent
NextEmailEvent ==
    /\ hpc = "looping"
    /\ Len(processingResults) < Len(emailEvents)
    /\ IF emailEvents[Len(processingResults) + 1] = "nomsg"
       THEN /\ processingResults' = Append(processingResults,
                    [status |-> "error", error |-> "Invalid email event format"])
            /\ UNCHANGED hpc
       ELSE /\ hpc' = "processing"
            /\ UNCHANGED processingResults
    /\ UNCHANGED <<emailEvents, response, cachedServices>>
    /\ UNCHANGED <<normVars, campVars, upVars, detVars, initVars, qVars, iocVars, hookVars, aiVars, retryVars, poolVars>>

\* processEmailEvent returns its result
ProcessEmailEvent(status) ==
    /\ hpc = "processing"
    /\ processingResults' = Append(processingResults, [status |-> status, error |-> "none"])
    /\ hpc' = "looping"
    /\ UNCHANGED <<emailEvents, response, cachedServices>>
    /\ UNCHANGED <<normVars, campVars, upVars, detVars, initVars, qVars, iocVars, hookVars, aiVars, retryVars, poolVars>>

\* processEmailEvent throws: the catch inside the loop records the error
ProcessEmailEventThrows ==
    /\ hpc = "processing"
    /\ processingResults' = Append(processingResults,
            [status |-> "error", error |-> "processEmailEvent"])
    /\ hpc' = "looping"
    /\ UNCHANGED <<emailEvents, response, cachedServices>>
    /\ UNCHANGED <<normVars, campVars, upVars, detVars, initVars, qVars, iocVars, hookVars, aiVars, retryVars, poolVars>>

\* after the loop: maintainCacheSize() and the answer
LoopEnds ==
    /\ hpc = "looping"
    /\ Len(processingResults) = Len(emailEvents)
    /\ hpc' = "returned"
    /\ response' = createResponse(200, [success |-> TRUE,
                                        processed |-> Len(processingResults)])
    /\ UNCHANGED <<emailEvents, processingResults, cachedServices>>
    /\ UNCHANGED <<normVars, campVars, upVars, detVars, initVars, qVars, iocVars, hookVars, aiVars, retryVars, poolVars>>

NextHandler ==
    \/ Invoke
    \/ InitializeServices
    \/ InitializeServicesThrows
    \/ \E parsed \in ParsedInputs : ParseEmailEvents(parsed)
    \/ ParseEmailEventsThrows
    \/ NextEmailEvent
    \/ \E status \in ProcessingStatuses : ProcessEmailEvent(status)
    \/ ProcessEmailEventThrows
    \/ LoopEnds

SpecHandler == Init /\ [][NextHandler]_vars

(***************************************************************************)
(* The calls of AnalysisService.analyzeEmail, one after the other          *)
(***************************************************************************)
\* analyzeEmail(emailData) up to the await of the primary provider
AnalyzeEmail(emailData) ==
    /\ apc \in {"idle", "returned"}
    /\ apc' = "primary"
    /\ providerCalls' = <<ProviderCall("primary", emailData)>>
    /\ UNCHANGED <<fallbackProvider, analysisResult>>
    /\ UNCHANGED <<normVars, campVars, upVars, detVars, initVars, qVars, iocVars, hookVars, lamVars, retryVars, poolVars>>

\* the primary provider returns: its result is returned
PrimaryReturns(verdict) ==
    /\ apc = "primary"
    /\ providerCalls' = [providerCalls EXCEPT ![1].outcome = "ok",
                            ![1].result = ProviderResult("primary", verdict)]
    /\ analysisResult' = ProviderResult("primary", verdict)
    /\ apc' = "returned"
    /\ UNCHANGED fallbackProvider
    /\ UNCHANGED <<normVars, campVars, upVars, detVars, initVars, qVars, iocVars, hookVars, lamVars, retryVars, poolVars>>

\* the primary provider throws: the fallback is tried if there is one,
\* else the error result is returned
PrimaryFails(error) ==
    /\ apc = "primary"
    /\ IF fallbackProvider
       THEN /\ providerCalls' = Append([providerCalls EXCEPT ![1].outcome = error],
                                       ProviderCall("fallback", providerCalls[1].emailData))
            /\ apc' = "fallback"
            /\ UNCHANGED analysisResult
       ELSE /\ providerCalls' = [providerCalls EXCEPT ![1].outcome = error]
            /\ analysisResult' = createErrorResult(<<error>>)
            /\ apc' = "returned"
    /\ UNCHANGED fallbackProvider
    /\ UNCHANGED <<normVars, campVars, upVars, detVars, initVars, qVars, iocVars, hookVars, lamVars, retryVars, poolVars>>

\* the fallback provider returns: its result is returned
FallbackReturns(verdict) ==
    /\ apc = "fallback"
    /\ providerCalls' = [providerCalls EXCEPT ![2].outcome = "ok",
                            ![2].result = ProviderResult("fallback", verdict)]
    /\ analysisResult' = ProviderResult("fallback", verdict)
    /\ apc' = "returned"
    /\ UNCHANGED fallbackProvider
    /\ UNCHANGED <<normVars, campVars, upVars, detVars, initVars, qVars, iocVars, hookVars, lamVars, retryVars, poolVars>>

\* the fallback provider throws too: the error result names both errors
FallbackFails(error) ==
    /\ apc = "fallback"
    /\ providerCalls' = [providerCalls EXCEPT ![2].outcome = error]
    /\ analysisResult' = createErrorResult(<<"All providers failed. Primary: ",
                                             providerCalls[1].outcome, ". Fallback: ", error>>)
    /\ apc' = "returned"
    /\ UNCHANGED fallbackProvider
    /\ UNCHANGED <<normVars, campVars, upVars, detVars, initVars, qVars, iocVars, hookVars, lamVars, retryVars, poolVars>>

NextAnalysis ==
    \/ \E emailData \in ExtractionInputs : AnalyzeEmail(emailData)
    \/ \E verdict \in VerdictInputs : PrimaryReturns(verdict)
    \/ \E error \in ProviderErrors : PrimaryFails(error)
    \/ \E verdict \in VerdictInputs : FallbackReturns(verdict)
    \/ \E error \in ProviderErrors : FallbackFails(error)

\* a service with or without a fallback provider
InitAnalysis ==
    /\ subject = <<>>
    /\ once = NotYet
    /\ twice = NotYet
    /\ variant = <<>>
    /\ onceVariant = NotYet
    /\ enabled = TRUE
    /\ CampInit
    /\ UpInit
    /\ DetInit
    /\ SchemaInit
    /\ QueryInit
    /\ ExtractInit
    /\ HookInit
    /\ HandlerInit
    /\ fallbackProvider \in BOOLEAN
    /\ apc = "idle"
    /\ providerCalls = <<>>
    /\ analysisResult = NotYet
    /\ RetryInit
    /\ PoolInit

SpecAnalysis == InitAnalysis /\ [][NextAnalysis]_vars

\* withRetry(fn, options) up to the first await: the options are merged
\* and, if the loop is entered, fn is called for attempt 1
WithRetry(options) ==
    /\ rpc = "idle"
    /\ LET opts == MergeOptions(options)
       IN  /\ retryOpts' = opts
           /\ attemptNo' = 1
           /\ IF 1 <= opts.maxRetries
              THEN /\ rpc' = "calling"
                   /\ fnCalls' = <<PendingCall>>
                   /\ settled' = settled
              ELSE /\ rpc' = "rejected"
                   /\ fnCalls' = <<>>
                   /\ settled' = Settled("rejected", "", AllAttemptsFailed)
    /\ UNCHANGED sleeps
    /\ UNCHANGED <<normVars, campVars, upVars, detVars, initVars, qVars, iocVars, hookVars, lamVars, aiVars, poolVars>>

\* fn() resolves: return await fn()
FnResolves(value) ==
    /\ rpc = "calling"
    /\ fnCalls' = [fnCalls EXCEPT ![attemptNo] = FnCall("resolved", value, AllAttemptsFailed)]
    /\ rpc' = "resolved"
    /\ settled' = Settled("resolved", value, AllAttemptsFailed)
    /\ UNCHANGED <<retryOpts, attemptNo, sleeps>>
    /\ UNCHANGED <<normVars, campVars, upVars, detVars, initVars, qVars, iocVars, hookVars, lamVars, aiVars, poolVars>>

\* a variant that sleeps after every failed attempt
FnRejects_AlwaysSleeps(error) ==
    /\ rpc = "calling"
    /\ fnCalls' = [fnCalls EXCEPT ![attemptNo] = FnCall("rejected", "", error)]
    /\ IF RejectsRetry(retryOpts, error)
       THEN /\ rpc' = "rejected"
            /\ settled' = Settled("rejected", "", error)
            /\ UNCHANGED <<attemptNo, sleeps>>
       ELSE /\ rpc' = "sleeping"
            /\ sleeps' = sleeps \cup {attemptNo}
            /\ UNCHANGED <<attemptNo, settled>>
    /\ UNCHANGED retryOpts
    /\ UNCHANGED <<normVars, campVars, upVars, detVars, initVars, qVars, iocVars, hookVars, lamVars, aiVars, poolVars>>

\* fn() rejects: the catch block, then either the throw of a rejected
\* retry, the start of the sleep, or the end of the loop and its throw
FnRejects(error) ==
    /\ rpc = "calling"
    /\ fnCalls' = [fnCalls EXCEPT ![attemptNo] = FnCall("rejected", "", error)]
    /\ IF RejectsRetry(retryOpts, error)
       THEN /\ rpc' = "rejected"
            /\ settled' = Settled("rejected", "", error)
            /\ UNCHANGED <<attemptNo, sleeps>>
       ELSE IF attemptNo < retryOpts.maxRetries
       THEN /\ rpc' = "sleeping"
            /\ sleeps' = sleeps \cup {attemptNo}
            /\ UNCHANGED <<attemptNo, settled>>
       ELSE /\ rpc' = "rejected"
            /\ attemptNo' = attemptNo + 1
            /\ settled' = Settled("rejected", "", error)
            /\ UNCHANGED sleeps
    /\ UNCHANGED retryOpts
    /\ UNCHANGED <<normVars, campVars, upVars, detVars, initVars, qVars, iocVars, hookVars, lamVars, aiVars, poolVars>>

\* the sleep ends: attempt++, the loop test, and the next call of fn or
\* the throw after the loop
RetrySleepEnds ==
    /\ rpc = "sleeping"
    /\ attemptNo' = attemptNo + 1
    /\ IF attemptNo + 1 <= retryOpts.maxRetries
       THEN /\ rpc' = "calling"
            /\ fnCalls' = Append(fnCalls, PendingCall)
            /\ settled' = settled
       ELSE /\ rpc' = "rejected"
            /\ fnCalls' = fnCalls
            /\ settled' = Settled("rejected", "", fnCalls[attemptNo].error)
    /\ UNCHANGED <<retryOpts, sleeps>>
    /\ UNCHANGED <<normVars, campVars, upVars, detVars, initVars, qVars, iocVars, hookVars, lamVars, aiVars, poolVars>>

\* fn() settles
FnSettles ==
    \/ \E value \in {"sent", "queued"} : FnResolves(value)
    \/ \E error \in RetryErrors : FnRejects(error)

NextRetry ==
    \/ \E options \in RetryOptionInputs : WithRetry(options)
    \/ FnSettles
    \/ RetrySleepEnds

\* one call of withRetry
InitRetry ==
    /\ subject = <<>>
    /\ once = NotYet
    /\ twice = NotYet
    /\ variant = <<>>
    /\ onceVariant = NotYet
    /\ enabled = TRUE
    /\ CampInit
    /\ UpInit
    /\ DetInit
    /\ SchemaInit
    /\ QueryInit
    /\ ExtractInit
    /\ HookInit
    /\ HandlerInit
    /\ AiInit
    /\ RetryInit
    /\ PoolInit

\* every call of fn settles and every timer fires
SpecRetry == InitRetry /\ [][NextRetry]_vars /\ WF_vars(FnSettles) /\ WF_vars(RetrySleepEnds)

\* the callers that use the pool at the same time, and the calls each makes
NumCallers == 2
MaxPoolCalls == 2
Callers == 1..NumCallers

\* the client a caller holds is {} or a one-element set
NoClient == {}

\* a caller outside any call
IdleCaller ==
    [op |-> "none", phase |-> "none", pos |-> "idle", client |-> NoClient,
     error |-> "none", acquired |-> 0, released |-> 0, calls |-> 0]

\* the client pool.connect() hands out
FreeClient == CHOOSE k \in 1..NumCallers : k \notin checkedOut /\ \A j \in 1..(k - 1) : j \in checkedOut

PoolRest == <<normVars, campVars, upVars, detVars, qVars, iocVars, hookVars, lamVars, aiVars, retryVars,
              opc, schemaRuns, started>>

\* initialize() or trackCampaignDetection(...) is called; both start with
\* the test of this.initialized, and trackCampaignDetection goes on to its
\* own pool.connect() when initialize returns at once
CallStore(c, op) ==
    /\ clients[c].pos \in {"idle", "returned", "thrown"}
    /\ clients[c].calls < MaxPoolCalls
    /\ clients' = [clients EXCEPT ![c] =
          [@ EXCEPT !.op = op,
                    !.calls = @ + 1,
                    !.error = "none",
                    !.phase = IF initialized /\ op = "trackCampaignDetection" THEN op ELSE "initialize",
                    !.pos = IF initialized /\ op = "initialize" THEN "returned" ELSE "connect"]]
    /\ UNCHANGED <<checkedOut, initialized>>
    /\ UNCHANGED PoolRest

\* const client = await this.pool.connect()
ConnectResolves(c) ==
    /\ clients[c].pos = "connect"
    /\ clients' = [clients EXCEPT ![c] =
          [@ EXCEPT !.client = {FreeClient}, !.acquired = @ + 1, !.pos = "begin"]]
    /\ checkedOut' = checkedOut \cup {FreeClient}
    /\ UNCHANGED initialized
    /\ UNCHANGED PoolRest

\* pool.connect() rejects before the try block: the call rejects
ConnectRejects(c) ==
    /\ clients[c].pos = "connect"
    /\ clients' = [clients EXCEPT ![c] = [@ EXCEPT !.error = "connect", !.pos = "thrown"]]
    /\ UNCHANGED <<checkedOut, initialized>>
    /\ UNCHANGED PoolRest

\* BEGIN, the statements of the transaction, or COMMIT resolves; after
\* COMMIT the try block ends (initialize sets this.initialized)
QueryResolves(c) ==
    /\ clients[c].pos \in {"begin", "statements", "commit"}
    /\ clients' = [clients EXCEPT ![c] =
          [@ EXCEPT !.pos = CASE @ = "begin" -> "statements"
                              [] @ = "statements" -> "commit"
                              [] @ = "commit" -> "finally"]]
    /\ initialized' = IF clients[c].pos = "commit" /\ clients[c].phase = "initialize"
                      THEN TRUE ELSE initialized
    /\ UNCHANGED checkedOut
    /\ UNCHANGED PoolRest

\* a query of the try block rejects: the catch block sends ROLLBACK
QueryRejects(c) ==
    /\ clients[c].pos \in {"begin", "statements", "commit"}
    /\ clients' = [clients EXCEPT ![c] = [@ EXCEPT !.error = "query", !.pos = "rollback"]]
    /\ UNCHANGED <<checkedOut, initialized>>
    /\ UNCHANGED PoolRest

\* ROLLBACK resolves: the catch block logs and rethrows the error
RollbackResolves(c) ==
    /\ clients[c].pos = "rollback"
    /\ clients' = [clients EXCEPT ![c] = [@ EXCEPT !.pos = "finally"]]
    /\ UNCHANGED <<checkedOut, initialized>>
    /\ UNCHANGED PoolRest

\* a variant whose release stands at the end of the catch block
RollbackRejects_LeavesCatch(c) ==
    /\ clients[c].pos = "rollback"
    /\ clients' = [clients EXCEPT ![c] = [@ EXCEPT !.error = "rollback", !.pos = "thrown"]]
    /\ UNCHANGED <<checkedOut, initialized>>
    /\ UNCHANGED PoolRest

\* ROLLBACK rejects: its error leaves the catch block
RollbackRejects(c) ==
    /\ clients[c].pos = "rollback"
    /\ clients' = [clients EXCEPT ![c] = [@ EXCEPT !.error = "rollback", !.pos = "finally"]]
    /\ UNCHANGED <<checkedOut, initialized>>
    /\ UNCHANGED PoolRest

\* finally { client.release() }, then the return or the pending throw;
\* trackCampaignDetection goes on after the initialize() it awaited
Release(c) ==
    /\ clients[c].pos = "finally"
    /\ checkedOut' = checkedOut \ clients[c].client
    /\ clients' = [clients EXCEPT ![c] =
          [@ EXCEPT !.client = NoClient,
                    !.released = @ + 1,
                    !.phase = IF clients[c].error = "none" THEN clients[c].op ELSE @,
                    !.pos = IF clients[c].error # "none" THEN "thrown"
                            ELSE IF clients[c].phase = "initialize" /\ clients[c].op = "trackCampaignDetection"
                                 THEN "connect"
                            ELSE "returned"]]
    /\ UNCHANGED initialized
    /\ UNCHANGED PoolRest

CallerStep(c) ==
    \/ \E op \in {"initialize", "trackCampaignDetection"} : CallStore(c, op)
    \/ ConnectResolves(c)
    \/ ConnectRejects(c)
    \/ QueryResolves(c)
    \/ QueryRejects(c)
    \/ RollbackResolves(c)
    \/ RollbackRejects(c)
    \/ Release(c)

NextPool == \E c \in Callers : CallerStep(c)

\* a new service and its pool, no caller in a call
InitPool ==
    /\ subject = <<>>
    /\ once = NotYet
    /\ twice = NotYet
    /\ variant = <<>>
    /\ onceVariant = NotYet
    /\ enabled = TRUE
    /\ CampInit
    /\ UpInit
    /\ DetInit
    /\ SchemaInit
    /\ QueryInit
    /\ ExtractInit
    /\ HookInit
    /\ HandlerInit
    /\ AiInit
    /\ RetryInit
    /\ clients = [c \in Callers |-> IdleCaller]
    /\ checkedOut = {}

SpecPool == InitPool /\ [][NextPool]_vars

InitNorm ==
    /\ subject \in NormInputs
    /\ once = NotYet
    /\ twice = NotYet
    /\ variant = subject
    /\ onceVariant = NotYet
    /\ enabled = TRUE
    /\ CampInit
    /\ UpInit
    /\ DetInit
    /\ SchemaInit
    /\ QueryInit
    /\ ExtractInit
    /\ HookInit
    /\ HandlerInit
    /\ AiInit
    /\ RetryInit
    /\ PoolInit

\* a caller normalises the subject
Normalize ==
    /\ once = NotYet
    /\ once' = normalizeSubjectForCampaign(subject)
    /\ UNCHANGED <<subject, twice, variant, onceVariant>>
    /\ UNCHANGED <<campVars, upVars, detVars, initVars, qVars, iocVars, hookVars, lamVars, aiVars, retryVars, poolVars>>

\* a caller normalises an already normalised subject
Renormalize ==
    /\ once # NotYet
    /\ twice = NotYet
    /\ twice' = normalizeSubjectForCampaign(once)
    /\ UNCHANGED <<subject, once, variant, onceVariant>>
    /\ UNCHANGED <<campVars, upVars, detVars, initVars, qVars, iocVars, hookVars, lamVars, aiVars, retryVars, poolVars>>

\* a caller normalises the second subject
NormalizeVariant ==
    /\ onceVariant = NotYet
    /\ onceVariant' = normalizeSubjectForCampaign(variant)
    /\ UNCHANGED <<subject, once, twice, variant>>
    /\ UNCHANGED <<campVars, upVars, detVars, initVars, qVars, iocVars, hookVars, lamVars, aiVars, retryVars, poolVars>>

NextNorm == Normalize \/ Renormalize

SpecNorm == InitNorm /\ [][NextNorm]_vars

\* two related subjects, each normalised once
InitPair ==
    /\ subject \in PairInputs
    /\ once = NotYet
    /\ twice = NotYet
    /\ variant \in Variants(subject) \cup Replies(subject)
    /\ onceVariant = NotYet
    /\ enabled = TRUE
    /\ CampInit
    /\ UpInit
    /\ DetInit
    /\ SchemaInit
    /\ QueryInit
    /\ ExtractInit
    /\ HookInit
    /\ HandlerInit
    /\ AiInit
    /\ RetryInit
    /\ PoolInit

NextPair == Normalize \/ NormalizeVariant

SpecPair == InitPair /\ [][NextPair]_vars

(***************************************************************************)
(* Claims about campaign tracking and alerting                             *)
(***************************************************************************)
\* the shouldAlert a call has just been given by trackCampaignDetection
ReturnedShouldAlert(h) ==
    IF call[h].via = "direct" THEN call[h].match.shouldAlert ELSE pc[h] = "details"

\* handler h takes the step that evaluates the alert decision
Evaluating(h) == pc[h] = "evaluate" /\ pc'[h] # "evaluate"

\* the campaign (class) a stored row belongs to
RowClass(row) == <<row.senderDomain, row.subjectPattern>>

RowsOf(c) == {s \in DOMAIN campaigns : RowClass(campaigns[s]) = c}

(***************************************************************************)
(* C1: the shouldAlert returned by a trackCampaignDetection call is true   *)
(* exactly when, on the row its upsert returned, detectionCount >= 3,      *)
(* the recipient count >= 2, at most 4 hours have passed since             *)
(* firstSeenAt, the risk level of the call is high or critical, and        *)
(* alertSentAt is unset or more than 24 hours old.                         *)
(***************************************************************************)
C1_ShouldAlertIff ==
    [][\A h \in Handlers :
          Evaluating(h) =>
             (ReturnedShouldAlert(h)' <=>
                 /\ call[h].row.detectionCount >= 3
                 /\ Len(call[h].row.uniqueRecipients) >= 2
                 /\ now - call[h].row.firstSeenAt <= 4
                 /\ call[h].risk \in {"high", "critical"}
                 /\ (call[h].row.alertSentAt = NoTime
                        \/ now - call[h].row.alertSentAt > 24))]_vars

\* a direct call returned shouldAlert = true exactly 4 hours after the first detection
C1_Witness ==
    \E h \in Handlers :
        /\ pc[h] = "done"
        /\ call[h].result = "match"
        /\ call[h].match.shouldAlert
        /\ call[h].match.hoursActive = 4

(***************************************************************************)
(* C2: for no campaign are two alerts sent within 24 hours of one another, *)
(* whatever the interleaving of the handlers.                              *)
(***************************************************************************)
C2_OneAlertPerWindow ==
    \A i, j \in DOMAIN alerts :
        (i < j /\ alerts[i].class = alerts[j].class) => alerts[j].at - alerts[i].at >= 24

(***************************************************************************)
(* C3: with the alert service called for one email after the other: the    *)
(* third detection of a campaign, made within an hour of the first with    *)
(* two recipients seen and risk high, is given shouldAlert = true; the     *)
(* fourth detection, made within 24 hours of that alert, is given          *)
(* shouldAlert = false.                                                    *)
(***************************************************************************)
C3_ScenarioThirdAlertsFourthDoesNot ==
    [][\A h \in Handlers :
          Evaluating(h) =>
             /\ (/\ call[h].row.detectionCount = 3
                 /\ Len(call[h].row.uniqueRecipients) = 2
                 /\ now - call[h].row.firstSeenAt <= 1
                 /\ call[h].risk = "high")
                    => ReturnedShouldAlert(h)'
             /\ (/\ call[h].row.detectionCount = 4
                 /\ alerts # <<>>
                 /\ now - alerts[Len(alerts)].at <= 24)
                    => ~ReturnedShouldAlert(h)']_vars

\* the third detection was alerted, the fourth came later and returned false
C3_Witness ==
    /\ Len(alerts) = 1
    /\ now > alerts[1].at
    /\ now - alerts[1].at <= 24
    /\ pc[1] = "done"
    /\ call[1].via = "process"
    /\ call[1].result = "false"
    /\ \E s \in DOMAIN campaigns :
          campaigns[s].detectionCount = 4 /\ campaigns[s].lastSeenAt = now

(***************************************************************************)
(* C4: the detections whose sender domains are equal ignoring case and     *)
(* whose subjects normalise to the same value share one signature and one  *)
(* campaign row, whose detectionCount is the number of those detections.   *)
(***************************************************************************)
C4_OneRowCountsEveryDetection ==
    /\ \A c \in ClassSpace :
          IF tracked[c] = 0 THEN RowsOf(c) = {}
          ELSE /\ Cardinality(RowsOf(c)) = 1
               /\ \A s \in RowsOf(c) : campaigns[s].detectionCount = tracked[c]
    /\ \A h, g \in Handlers :
          (/\ pc[h] \in {"upsert", "commit", "evaluate"}
           /\ pc[g] \in {"upsert", "commit", "evaluate"}
           /\ call[h].class = call[g].class) => call[h].sig = call[g].sig

\* three detections are counted while one more waits for the row and another holds it
C4_Witness ==
    \E h, g \in Handlers, c \in ClassSpace :
        /\ tracked[c] >= 2
        /\ pc[h] = "commit"
        /\ pc[g] = "upsert"
        /\ call[h].class = c
        /\ call[g].class = c

(***************************************************************************)
(* C5: no campaign lists a recipient twice, addresses compared ignoring    *)
(* case, and it lists as many recipients as distinct addresses were seen.  *)
(***************************************************************************)
C5_RecipientsAreASet ==
    \A s \in DOMAIN campaigns :
        LET u == campaigns[s].uniqueRecipients
        IN  /\ \A i, j \in DOMAIN u : ToLowerCase(u[i]) = ToLowerCase(u[j]) => i = j
            /\ Len(u) = Cardinality(seenRcpt[RowClass(campaigns[s])])

\* a recipient came back: more detections than recipients
C5_Witness ==
    \E s \in DOMAIN campaigns :
        /\ Len(campaigns[s].uniqueRecipients) = 2
        /\ campaigns[s].detectionCount >= 3

(***************************************************************************)
(* Claims about indicator and pattern upserts                              *)
(***************************************************************************)
\* an indicator as the claims identify it: (type, value ignoring case)
IndicatorClass(q) == <<q.indicatorType, ToLowerCase(q.indicatorValue)>>

IndicatorClasses == {IndicatorClass(i) : i \in IndicatorInputs}

\* a pattern as the claims identify it: (type, name)
PatternClass(q) == <<q.patternType, q.patternName>>

PatternClasses == {PatternClass(p) : p \in PatternInputs}

\* the upsertIndicator statements executed for class c, in arrival order
IndicatorCalls(c) ==
    SelectSeq(executed, LAMBDA q : q.op = "indicator" /\ IndicatorClass(q) = c)

\* the upsertPattern statements executed for class c, in arrival order
PatternCalls(c) ==
    SelectSeq(executed, LAMBDA q : q.op = "pattern" /\ PatternClass(q) = c)

IndicatorRows(c) ==
    {k \in DOMAIN threat_indicators : IndicatorClass(threat_indicators[k]) = c}

PatternRows(c) ==
    {k \in DOMAIN detected_patterns : PatternClass(detected_patterns[k]) = c}

\* the largest number of a non-empty finite set
MaxOf(S) == CHOOSE x \in S : \A y \in S : x >= y

\* the most severe level of a non-empty finite set
WorstOf(S) == CHOOSE x \in S : \A y \in S : Severity(x) >= Severity(y)

\* the original statement of C6: two upserts of one indicator leave timesSeen = 2
C6_TimesSeenIsTwo ==
    \A c \in IndicatorClasses :
        Len(IndicatorCalls(c)) = 2 =>
            \A k \in IndicatorRows(c) : threat_indicators[k].timesSeen = 2

(***************************************************************************)
(* C6: after two indicators of the same type and the same value ignoring   *)
(* case were upserted, exactly one row exists for them; its timesSeen is   *)
(* the timesSeen of the indicator that arrived first plus one (2 when      *)
(* that indicator carried 1), its confidenceScore the larger of the two    *)
(* and its severity the more severe of the two.                            *)
(***************************************************************************)
C6_TwoUpsertsMerge ==
    \A c \in IndicatorClasses :
        LET calls == IndicatorCalls(c)
        IN  Len(calls) = 2 =>
              /\ Cardinality(IndicatorRows(c)) = 1
              /\ \A k \in IndicatorRows(c) :
                    /\ threat_indicators[k].timesSeen = calls[1].timesSeen + 1
                    /\ threat_indicators[k].confidenceScore =
                          MaxOf({calls[1].confidenceScore, calls[2].confidenceScore})
                    /\ threat_indicators[k].severity =
                          Worse(calls[1].severity, calls[2].severity)

\* two indicators that differ in case, confidence and severity were merged,
\* the less severe and more confident one arriving second
C6_Witness ==
    \E c \in IndicatorClasses :
        LET calls == IndicatorCalls(c)
        IN  /\ Len(calls) = 2
            /\ calls[1].indicatorValue # calls[2].indicatorValue
            /\ Severity(calls[2].severity) < Severity(calls[1].severity)
            /\ calls[2].confidenceScore > calls[1].confidenceScore

(***************************************************************************)
(* C7: whatever the interleaving of the writers, the k upserts executed    *)
(* for one key leave exactly one row: its counter is the value inserted    *)
(* by the first arrival plus k - 1, its confidence and severity are the    *)
(* largest and the most severe over all k calls, and every call that       *)
(* reached the store was answered with the id of that row.                 *)
(***************************************************************************)
C7_ConcurrentUpsertsConverge ==
    /\ \A c \in IndicatorClasses :
          LET calls == IndicatorCalls(c)
          IN  IF calls = <<>> THEN IndicatorRows(c) = {}
              ELSE /\ Cardinality(IndicatorRows(c)) = 1
                   /\ \A k \in IndicatorRows(c) :
                         /\ threat_indicators[k].timesSeen =
                               calls[1].timesSeen + Len(calls) - 1
                         /\ threat_indicators[k].confidenceScore =
                               MaxOf({calls[i].confidenceScore : i \in DOMAIN calls})
                         /\ threat_indicators[k].severity =
                               WorstOf({calls[i].severity : i \in DOMAIN calls})
    /\ \A c \in PatternClasses :
          LET calls == PatternCalls(c)
          IN  IF calls = <<>> THEN PatternRows(c) = {}
              ELSE /\ Cardinality(PatternRows(c)) = 1
                   /\ \A k \in PatternRows(c) :
                         detected_patterns[k].matchCount =
                             calls[1].matchCount + Len(calls) - 1
    /\ \A i \in DOMAIN executed :
          IF executed[i].op = "indicator"
          THEN executed[i].returned \in IndicatorRows(IndicatorClass(executed[i]))
          ELSE executed[i].returned \in PatternRows(PatternClass(executed[i]))

\* one upsert of a pattern has been merged while two more statements for
\* the same key, carrying another matchCount, are in flight together
C7_Witness ==
    \E c \in PatternClasses, w, v \in Writers :
        /\ w # v
        /\ wpc[w] = "bound" /\ wcall[w].op = "pattern" /\ PatternClass(wcall[w]) = c
        /\ wpc[v] = "bound" /\ wcall[v].op = "pattern" /\ PatternClass(wcall[v]) = c
        /\ Len(PatternCalls(c)) = 1
        /\ wcall[w].matchCount # PatternCalls(c)[1].matchCount

(***************************************************************************)
(* C8: processDetection with risk medium or low returns false at once:     *)
(* no store call, no change to any campaign row, no new row, no alert.     *)
(***************************************************************************)
C8_LowRiskIsNotTracked ==
    [][\A h \in Handlers :
          (/\ pc[h] \in {"idle", "done"}
           /\ <<pc[h], call[h]>>' # <<pc[h], call[h]>>
           /\ call'[h].via \in {"gated", "process"}
           /\ call'[h].risk \in {"medium", "low"})
             => /\ pc'[h] = "done"
                /\ call'[h].result = "false"
                /\ campaigns' = campaigns
                /\ rowLock' = rowLock
                /\ alerts' = alerts]_vars

\* a medium or low detection was turned away while a campaign is stored
C8_Witness ==
    \E h \in Handlers :
        /\ pc[h] = "done"
        /\ call[h].via = "gated"
        /\ call[h].risk \in {"medium", "low"}
        /\ enabled
        /\ campaigns # <<>>

(***************************************************************************)
(* C9: the stored riskLevel of a campaign is the most severe level of the  *)
(* detections tracked for it (critical > high > medium > low).             *)
(***************************************************************************)
C9_RiskIsWorstSeen ==
    \A s \in DOMAIN campaigns :
        campaigns[s].riskLevel = worstRisk[RowClass(campaigns[s])]

C15_MissedAlertIsRetried ==
    [][\A h \in Handlers :
          /\ (pc[h] = "send" /\ pc'[h] = "done")
                => (campaigns' = campaigns /\ alerts' = alerts)
          /\ (/\ Evaluating(h)
              /\ call[h].via = "process"
              /\ call[h].class \in undelivered
              /\ call[h].row.detectionCount >= 3
              /\ Len(call[h].row.uniqueRecipients) >= 2
              /\ now - call[h].row.firstSeenAt <= 4)
                => pc'[h] = "details"]_vars

\* after a failed delivery the next detection reached the delivery again
C15_Witness ==
    \E h \in Handlers :
        /\ pc[h] = "send"
        /\ call[h].class \in undelivered
        /\ call[h].match.detectionCount = 4
        /\ alerts = <<>>

\* the detectionCount a call was given, for the calls that hold one
HoldsCount(h) ==
    \/ pc[h] \in {"evaluate", "details", "send", "mark"}
    \/ (pc[h] = "done" /\ call[h].result = "match")

ReturnedCount(h) ==
    IF pc[h] = "evaluate" THEN call[h].row.detectionCount
    ELSE call[h].match.detectionCount

ReturnedSignature(h) ==
    IF pc[h] = "evaluate" THEN call[h].row.campaignSignature
    ELSE call[h].match.signature

(***************************************************************************)
(* C16: a trackCampaignDetection call is given the detectionCount of the   *)
(* row right after its own update: at its COMMIT the count is the number   *)
(* of detections committed so far, its own included, and no two calls      *)
(* are given the same count for one signature, so that concurrent calls    *)
(* on a new signature are given 1..k and one of them sees 3.               *)
(***************************************************************************)
C16_EachCallSeesItsOwnCount ==
    [][/\ \A h \in Handlers :
             (pc[h] = "commit" /\ pc'[h] = "evaluate") =>
                 call[h].row.detectionCount = tracked'[call[h].class]
       /\ \A h, g \in Handlers :
             (h # g /\ HoldsCount(h)' /\ HoldsCount(g)'
                    /\ ReturnedSignature(h)' = ReturnedSignature(g)')
                 => ReturnedCount(h)' # ReturnedCount(g)']_vars

\* two calls in flight together were given the counts 2 and 3
C16_Witness ==
    \E h, g \in Handlers :
        /\ pc[h] = "evaluate"
        /\ pc[g] = "evaluate"
        /\ call[h].txnStart = call[g].txnStart
        /\ call[h].row.detectionCount = 2
        /\ call[g].row.detectionCount = 3

(***************************************************************************)
(* C19: a campaign keeps at most 5 sample indicators, however many a       *)
(* detection supplied and however many detections were tracked.            *)
(***************************************************************************)
C19_AtMostFiveSampleIndicators ==
    \A s \in DOMAIN campaigns : Len(campaigns[s].sampleIndicators) <= 5

\* a campaign started by a detection with six indicators and seen again
C19_Witness ==
    \E s \in DOMAIN campaigns :
        /\ Len(campaigns[s].sampleIndicators) = 5
        /\ campaigns[s].detectionCount >= 2

(***************************************************************************)
(* C10: subject normalisation is idempotent: normalising a normalised      *)
(* subject gives it back, also for subjects beyond the length limit.       *)
(***************************************************************************)
C10_NormalizeIdempotent == twice # NotYet => twice = once

(***************************************************************************)
(* C11: two subjects that differ in letter case and in the digits of       *)
(* their digit runs only normalise to the same value, and so give the      *)
(* same campaign signature for a sender domain.                            *)
(***************************************************************************)
C11_CaseAndNumeralInsensitive ==
    (once # NotYet /\ onceVariant # NotYet /\ variant \in Variants(subject)) =>
        /\ onceVariant = once
        /\ \A d \in SenderDomains : Signature(d, onceVariant) = Signature(d, once)

\* a subject and one with a longer digit run and a letter in the other
\* case were normalised to the same non-empty value
C11_Witness ==
    /\ once # NotYet
    /\ onceVariant # NotYet
    /\ onceVariant = once
    /\ once # <<>>
    /\ variant \in Variants(subject)
    /\ Len(variant) > Len(subject)
    /\ \E p \in 1..Len(subject) :
          variant[p] # subject[p] /\ LowerChar(variant[p]) = LowerChar(subject[p])

\* s without the whitespace in front
TrimStart(s) ==
    LET inked == {i \in 1..Len(s) : s[i] \notin Whitespace}
    IN  IF inked = {} THEN <<>>
        ELSE SubSeq(s, CHOOSE i \in inked : \A j \in inked : i <= j, Len(s))

\* the lower-cased subject s without the markers that lead it
RECURSIVE StripLeadingMarkers(_)
StripLeadingMarkers(s) ==
    LET t == TrimStart(s)
        leading == {m \in {ToLowerCase(k) : k \in Markers} : MatchesAt(t, 1, m)}
    IN  IF leading = {} THEN t
        ELSE LET m == CHOOSE k \in leading : TRUE
             IN  StripLeadingMarkers(SubSeq(t, Len(m) + 1, Len(t)))

\* the normalisation with the markers removed only where they lead
NormalizeLeadingOnly(s) ==
    Substring0(
        Trim(CollapseWhitespace(StripSpecialChars(ReplaceDigitRuns(
            StripLeadingMarkers(ToLowerCase(s)))))),
        SubjectLimit)

(***************************************************************************)
(* C12: a subject with a reply or forward marker in front normalises to    *)
(* the value of the subject without it, and the markers are removed only   *)
(* where they lead the subject: "re:", "fw:" and "fwd:" further inside     *)
(* keep their letters.                                                     *)
(***************************************************************************)
C12_MarkersStrippedOnlyWhereLeading ==
    /\ (once # NotYet /\ onceVariant # NotYet /\ variant \in Replies(subject)) =>
          onceVariant = once
    /\ once # NotYet => once = NormalizeLeadingOnly(subject)

\* C14: detectPatterns never throws to its caller: when searchAnalyses or
\* upsertPattern fails, the call still completes.
C14_DetectPatternsNeverThrows == dpc # "threw"

\* C17: for every pattern name, over the calls of detectPatterns so far, a
\* returned pattern has isNew exactly when its match count equals
\* minMatchCount and no earlier returned pattern of that name had that count.
C17_IsNewOnlyOnFirstThreshold ==
    \A i \in DOMAIN history :
        history[i].isNew <=>
            /\ history[i].matchCount = MinMatchCount
            /\ \A j \in 1..(i - 1) :
                  history[j].name = history[i].name => history[j].matchCount # MinMatchCount

\* the rows of table that detector d stores
DetectorRows(d, table) == {<<k, table[k]>> : k \in {x \in DOMAIN table : x[1] = d}}

\* C18: a detector that counted fewer than minMatchCount matches (or has
\* not counted), and every detector of a call with a non-phishing verdict,
\* has not called upsertPattern, has left its rows as they were when the
\* call began and has no pattern among those of the call; a call without
\* upsertPattern leaves the whole table as it was.
C18_PatternOnlyAtThreshold ==
    /\ \A i \in DOMAIN Detectors :
          (~dcall.isPhishing \/ dcall.counted[i] < MinMatchCount) =>
              /\ Detectors[i] \notin dcall.upserted
              /\ \A n \in DOMAIN dcall.patterns : dcall.patterns[n].type # Detectors[i]
              /\ DetectorRows(Detectors[i], detected_patterns) = DetectorRows(Detectors[i], dcall.before)
    /\ dcall.upserted = {} => detected_patterns = dcall.before

\* a finished call in which one detector counted too few matches and
\* another stored its pattern
C18_Witness ==
    /\ dpc = "done"
    /\ \E i \in DOMAIN Detectors : dcall.counted[i] \in 0..(MinMatchCount - 1)
    /\ dcall.upserted # {}
    /\ detected_patterns # dcall.before

\* C20: the schema transaction commits at most once on a store instance.
C20_SchemaRunsAtMostOnce == schemaRuns <= 1

\* C21: an operation that leaves initialize without a commit has failed
\* (its error went to the caller) and has left the initialized flag and the
\* committed schema as they were; no operation is at its own query unless
\* the store is initialized by a committed schema transaction.
C21_InitFailureIsFatal ==
    [][\A o \in Ops :
          /\ (/\ opc[o] \in {"connect", "schema"}
              /\ opc'[o] \notin {"connect", "schema"}
              /\ schemaRuns' = schemaRuns)
                => (opc'[o] = "failed" /\ initialized' = initialized)
          /\ opc'[o] = "query" => (initialized' /\ schemaRuns' >= 1)]_vars

\* an operation has failed in initialize, the store is not initialized,
\* and another operation is in its own schema transaction
C21_Witness ==
    /\ ~initialized
    /\ \E o, p \in Ops : opc[o] = "failed" /\ opc[p] = "schema"

\* C22: when the upsert or the COMMIT of trackCampaignDetection fails, the
\* call ends at once (no second attempt), a direct caller gets the error,
\* the campaigns table is what it was before the step, and the transaction
\* holds no row any more.
C22_FailedTrackingLeavesRowUntouched ==
    [][\A h \in Handlers :
          (pc[h] \in {"upsert", "commit"} /\ pc'[h] \notin {"upsert", "commit", "evaluate"})
              => /\ pc'[h] = "done"
                 /\ call[h].via = "direct" => call'[h].result = "threw"
                 /\ campaigns' = campaigns
                 /\ \A s \in SigSpace : rowLock'[s] # h]_vars

\* a direct call has thrown while its campaign has a stored row
C22_Witness ==
    \E h \in Handlers :
        /\ pc[h] = "done"
        /\ call[h].via = "direct"
        /\ call[h].result = "threw"
        /\ campaigns # <<>>

\* the rows of the analyses table that satisfy the filters of the last query
SelectedAnalyses ==
    LET Selected(r) == AnalysisSelected(r.row, query.filters)
    IN  TotalRows(SelectSeq(tables.email_analyses, Selected))

\* C23: whatever integers searchAnalyses is given as limit and offset, it
\* returns the rows after the first max(0, offset) selected rows (0 when
\* omitted), min(max(1, limit), 1000) of them at most (limit 100 when
\* omitted), and so never more than 1000.
C23_LimitAndOffsetAreClamped ==
    query.op = "searchAnalyses" =>
        LET limit == IF query.filters.limit = <<>> THEN 100
                     ELSE IF query.filters.limit[1] < 1 THEN 1
                     ELSE IF query.filters.limit[1] > 1000 THEN 1000
                     ELSE query.filters.limit[1]
            offset == IF query.filters.offset = <<>> THEN 0
                      ELSE IF query.filters.offset[1] < 0 THEN 0
                      ELSE query.filters.offset[1]
            left == IF SelectedAnalyses > offset THEN SelectedAnalyses - offset ELSE 0
        IN  /\ TotalRows(returnedRows) = IF left < limit THEN left ELSE limit
            /\ TotalRows(returnedRows) <= 1000

\* a search with limit 5000 over more than 1000 selected rows returned 1000
C23_Witness ==
    /\ query.op = "searchAnalyses"
    /\ query.filters.limit = <<5000>>
    /\ query.filters.offset = <<-3>>
    /\ SelectedAnalyses > 1000
    /\ TotalRows(returnedRows) = 1000

\* the rows of the indicators table that the last query may return
ActiveIndicators ==
    LET Selected(r) == /\ r.row.isActive
                       /\ (r.row.expiresAt = NoTime \/ r.row.expiresAt > query.at)
                       /\ query.type # <<>> => r.row.indicatorType = query.type[1]
    IN  TotalRows(SelectSeq(tables.threat_indicators, Selected))

\* C24: getActiveIndicators returns active, unexpired indicators of the
\* requested type only, latest lastSeenAt first, and as many of them as
\* there are up to min(max(1, limit), 1000).
C24_ActiveIndicatorsOnly ==
    query.op = "getActiveIndicators" =>
        LET limit == IF query.limit = <<>> THEN 100
                     ELSE IF query.limit[1] < 1 THEN 1
                     ELSE IF query.limit[1] > 1000 THEN 1000
                     ELSE query.limit[1]
        IN  /\ \A i \in DOMAIN returnedRows :
                  /\ returnedRows[i].row.isActive
                  /\ (returnedRows[i].row.expiresAt = NoTime \/ returnedRows[i].row.expiresAt > query.at)
                  /\ query.type # <<>> => returnedRows[i].row.indicatorType = query.type[1]
            /\ \A i, j \in DOMAIN returnedRows :
                  i < j => returnedRows[i].row.lastSeenAt >= returnedRows[j].row.lastSeenAt
            /\ TotalRows(returnedRows) = IF ActiveIndicators < limit THEN ActiveIndicators ELSE limit
            /\ TotalRows(returnedRows) <= 1000

\* getActiveIndicators("domain", 5000) over more than 1000 active domain
\* indicators returned 1000 rows, and an expired run was left out
C24_Witness ==
    /\ query.op = "getActiveIndicators"
    /\ query.type = <<"domain">>
    /\ query.limit = <<5000>>
    /\ ActiveIndicators > 1000
    /\ TotalRows(returnedRows) = 1000
    /\ \E i \in DOMAIN tables.threat_indicators :
          /\ tables.threat_indicators[i].row.isActive
          /\ tables.threat_indicators[i].row.expiresAt # NoTime
          /\ tables.threat_indicators[i].row.expiresAt <= query.at

\* the indicators of a result, as a set
Returned_Indicators(m) == {extracted[m][i] : i \in DOMAIN extracted[m]}

\* C25: for the same email and verdict and thresholds m1 <= m2, every
\* indicator returned with minConfidence m2 is also returned with m1, and
\* with minConfidence 0 every extracted candidate is returned.
C25_MonotoneInMinConfidence ==
    /\ \A m1, m2 \in Thresholds :
          (m1 <= m2 /\ extracted[m1] # NotYet /\ extracted[m2] # NotYet)
              => Returned_Indicators(m2) \subseteq Returned_Indicators(m1)
    /\ extracted[0] # NotYet
          => extracted[0] = Candidates(extraction.emailData, extraction.analysis, now)

\* the same email and verdict were extracted with minConfidence 0 and 0.5,
\* and the higher threshold returned some of the candidates but not all
C25_Witness ==
    /\ extracted[0] # NotYet
    /\ extracted[5000] # NotYet
    /\ Len(extracted[5000]) > 0
    /\ Len(extracted[5000]) < Len(extracted[0])

\* the result of the last call of extractIOCs
LastExtracted == extracted[EffectiveMinConfidence(extraction.minConfidence)]

\* C26: every indicator of a call carries the severity of the verdict:
\* critical when phishing with confidence "very high", high when phishing
\* with confidence "high", medium for any other phishing verdict, low when
\* the verdict is not phishing.
C26_SeverityFollowsVerdict ==
    extraction.op = "extractIOCs" =>
        LET verdict == extraction.analysis
            confidence == LowerLabel(verdict.confidence)
            expected == IF ~verdict.isPhishing THEN "low"
                        ELSE IF confidence = "very high" THEN "critical"
                        ELSE IF confidence = "high" THEN "high"
                        ELSE "medium"
        IN  \A i \in DOMAIN LastExtracted : LastExtracted[i].severity = expected

\* the octets of the IPv4 literals of the content of the last call
ContentIps ==
    {extraction.emailData.content[i].octets :
        i \in {j \in DOMAIN extraction.emailData.content :
                  /\ extraction.emailData.content[j].kind \in {"ip", "url"}
                  /\ extraction.emailData.content[j].octets # <<>>}}

\* RFC1918 private, loopback or link-local
ExcludedIp(ip) ==
    \/ ip[1] = 10
    \/ ip[1] = 172 /\ ip[2] \in 16..31
    \/ ip[1] = 192 /\ ip[2] = 168
    \/ ip[1] = 127
    \/ ip[1] = 169 /\ ip[2] = 254

\* C27: extractIOCs returns no 'ip' indicator for a private, loopback or
\* link-local IPv4 literal, and exactly one for every distinct public IPv4
\* literal of the content (at a threshold that the base confidence passes).
C27_NoPrivateIpIndicators ==
    extraction.op = "extractIOCs" =>
        LET IpAt(i) == LastExtracted[i].indicatorType = "ip"
            base == IF extraction.analysis.isPhishing THEN 7000 ELSE 3000
        IN  /\ \A i \in DOMAIN LastExtracted :
                  IpAt(i) => ~ExcludedIp(LastExtracted[i].indicatorValue)
            /\ EffectiveMinConfidence(extraction.minConfidence) <= base =>
                  \A ip \in ContentIps :
                      ~ExcludedIp(ip) =>
                          Cardinality({i \in DOMAIN LastExtracted :
                              IpAt(i) /\ LastExtracted[i].indicatorValue = ip}) = 1

C29_DeliveryIsFailureIsolated ==
    /\ sendCall.status \in {"pending", "resolved"}
    /\ (sendCall.status = "resolved" /\ sendCall.event # "none") =>
          \A i \in DOMAIN webhooks :
              sendCall.event \in webhooks[i].events =>
                  \E k \in DOMAIN delivery :
                      /\ delivery[k].webhook = i
                      /\ delivery[k].pc = "settled"
                      /\ \/ delivery[k].outcome.success
                         \/ delivery[k].posts = MaxRetries(webhooks[i])

\* a send call resolved although one webhook failed on each of its three
\* attempts, and another webhook of the same event was delivered
C29_Witness ==
    /\ sendCall.status = "resolved"
    /\ sendCall.op = "sendThreatDetected"
    /\ \E k \in DOMAIN delivery :
          /\ delivery[k].pc = "settled"
          /\ ~delivery[k].outcome.success
          /\ delivery[k].posts = 3
    /\ \E k \in DOMAIN delivery :
          /\ delivery[k].pc = "settled"
          /\ delivery[k].outcome.success

\* C30: no exception escapes the Lambda handler, and every response it
\* returns has status 200: without email events, when the processing of an
\* email throws, and when initialisation or parsing throws.
C30_HandlerAlwaysReturns200 ==
    /\ hpc \in {"idle", "initializing", "parsing", "looping", "processing", "returned"}
    /\ hpc = "returned" => response.statusCode = 200

\* an invocation returned 200 after the processing of one of its two
\* emails threw and the other was processed
C30_Witness ==
    /\ hpc = "returned"
    /\ response.statusCode = 200
    /\ response.body.success
    /\ Len(emailEvents) = 2
    /\ \E i \in DOMAIN processingResults : processingResults[i].error = "processEmailEvent"
    /\ \E i \in DOMAIN processingResults : processingResults[i].status = "processed"

\* the place of a position of processDetection in the order of its calls
Stage(p) ==
    CASE p = "idle" -> 0
      [] p = "upsert" -> 1
      [] p = "commit" -> 2
      [] p = "evaluate" -> 3
      [] p = "details" -> 4
      [] p = "send" -> 5
      [] p = "mark" -> 6
      [] p = "done" -> 7

C32_AnalyzeEmailNeverThrows ==
    /\ apc \in {"idle", "primary", "fallback", "returned"}
    /\ \A i, j \in DOMAIN providerCalls :
          providerCalls[i].provider = providerCalls[j].provider => i = j
    /\ \A i \in DOMAIN providerCalls :
          providerCalls[i].provider = "fallback" =>
              /\ fallbackProvider
              /\ i = 2
              /\ providerCalls[1].provider = "primary"
              /\ providerCalls[1].outcome \in ProviderErrors
    /\ apc = "returned" =>
          /\ providerCalls[1].outcome = "ok" =>
                /\ Len(providerCalls) = 1
                /\ analysisResult = providerCalls[1].result
          /\ (\A i \in DOMAIN providerCalls : providerCalls[i].outcome \in ProviderErrors) =>
                /\ Len(providerCalls) = IF fallbackProvider THEN 2 ELSE 1
                /\ ~analysisResult.isPhishing
                /\ analysisResult.confidence = "N/A"

\* analyzeEmail returned the error result after the primary and the
\* fallback provider had both failed
C32_Witness ==
    /\ apc = "returned"
    /\ Len(providerCalls) = 2
    /\ providerCalls[1].outcome \in ProviderErrors
    /\ providerCalls[2].outcome \in ProviderErrors
    /\ analysisResult.provider = "none"

\* C33: firstSeenAt of a campaign is never reset, so a detection more than
\* 4 hours after the first one is never given shouldAlert = true; and a
\* detection of a campaign that carries an alertSentAt is not given
\* shouldAlert = true either, however long ago the alert was.
C33_WindowNeverReopens ==
    [][/\ \A s \in DOMAIN campaigns :
             /\ s \in DOMAIN campaigns'
             /\ campaigns'[s].firstSeenAt = campaigns[s].firstSeenAt
       /\ \A h \in Handlers :
             Evaluating(h) =>
                 LET shouldAlert == IF call[h].via = "direct"
                                    THEN call'[h].match.shouldAlert
                                    ELSE pc'[h] = "details"
                 IN  /\ now - campaigns[call[h].sig].firstSeenAt > 4 => ~shouldAlert
                     /\ call[h].row.alertSentAt # NoTime => ~shouldAlert]_vars

\* a fourth detection, 29 hours after the first and more than 24 hours
\* after the alert, came back with shouldAlert = false
C33_Witness ==
    /\ pc[1] = "done"
    /\ call[1].via = "direct"
    /\ call[1].result = "match"
    /\ call[1].match.detectionCount = 4
    /\ call[1].match.uniqueRecipientCount >= 2
    /\ call[1].match.alertSentAt # NoTime
    /\ now - call[1].match.alertSentAt > 24
    /\ call[1].match.hoursActive > 24
    /\ ~call[1].match.shouldAlert

\* C34: every campaign has at least one unique recipient and never more
\* unique recipients than detections, in the table and in the rows written
\* inside open transactions; and a returned uniqueRecipientCount never
\* exceeds the returned detectionCount.
C34_RecipientsBoundedByDetections ==
    /\ \A s \in DOMAIN campaigns :
          /\ Len(campaigns[s].uniqueRecipients) >= 1
          /\ Len(campaigns[s].uniqueRecipients) <= campaigns[s].detectionCount
    /\ \A h \in Handlers :
          /\ pc[h] \in {"commit", "evaluate"} =>
                /\ Len(call[h].row.uniqueRecipients) >= 1
                /\ Len(call[h].row.uniqueRecipients) <= call[h].row.detectionCount
          /\ (pc[h] = "done" /\ call[h].result = "match") =>
                call[h].match.uniqueRecipientCount <= call[h].match.detectionCount

\* a call returned two unique recipients for three detections
C34_Witness ==
    \E h \in Handlers :
        /\ pc[h] = "done"
        /\ call[h].result = "match"
        /\ call[h].match.uniqueRecipientCount = 2
        /\ call[h].match.detectionCount = 3
        /\ Len(campaigns[call[h].match.campaignId].uniqueRecipients) = 2

\* C35: no step changes senderDomain, subjectPattern, sampleIndicators or
\* firstSeenAt of an existing campaign, and alertSentAt changes only in the
\* step in which a markCampaignAlerted call completes.
C35_DetectionKeepsFirstValues ==
    [][\A s \in DOMAIN campaigns :
          /\ s \in DOMAIN campaigns'
          /\ campaigns'[s].id = campaigns[s].id
          /\ campaigns'[s].campaignSignature = campaigns[s].campaignSignature
          /\ campaigns'[s].senderDomain = campaigns[s].senderDomain
          /\ campaigns'[s].subjectPattern = campaigns[s].subjectPattern
          /\ campaigns'[s].sampleIndicators = campaigns[s].sampleIndicators
          /\ campaigns'[s].firstSeenAt = campaigns[s].firstSeenAt
          /\ campaigns'[s].alertSentAt # campaigns[s].alertSentAt =>
                \E h \in Handlers :
                    /\ pc[h] = "mark"
                    /\ pc'[h] = "done"
                    /\ call[h].match.campaignId = s
                    /\ call'[h].result = "true"]_vars

\* a detection with other indicators was committed to a campaign of two or
\* more detections, and the campaign kept the indicators of its first one
C35_Witness ==
    \E h \in Handlers :
        /\ pc[h] = "evaluate"
        /\ call[h].row.detectionCount >= 2
        /\ call[h].indicators # call[h].row.sampleIndicators
        /\ campaigns[call[h].sig].sampleIndicators = call[h].row.sampleIndicators
        /\ campaigns[call[h].sig].lastSeenAt > campaigns[call[h].sig].firstSeenAt

\* C36: no step changes indicatorValue, firstSeenAt, isActive, expiresAt or
\* metadata of a stored indicator, and an indicator that getActiveIndicators
\* leaves out is still left out after the step.
C36_SightingKeepsStoredFields ==
    [][\A k \in DOMAIN threat_indicators :
          /\ k \in DOMAIN threat_indicators'
          /\ threat_indicators'[k].indicatorType = threat_indicators[k].indicatorType
          /\ threat_indicators'[k].indicatorHash = threat_indicators[k].indicatorHash
          /\ threat_indicators'[k].indicatorValue = threat_indicators[k].indicatorValue
          /\ threat_indicators'[k].firstSeenAt = threat_indicators[k].firstSeenAt
          /\ threat_indicators'[k].isActive = threat_indicators[k].isActive
          /\ threat_indicators'[k].expiresAt = threat_indicators[k].expiresAt
          /\ threat_indicators'[k].metadata = threat_indicators[k].metadata
          /\ ~IndicatorSelected(threat_indicators[k], <<>>, now) =>
                ~IndicatorSelected(threat_indicators'[k], <<>>, now')]_vars

\* an indicator stored inactive was seen again in a record that says
\* active, with another value and metadata: it was counted and stays
\* inactive
C36_Witness ==
    /\ executed # <<>>
    /\ LET last == executed[Len(executed)]
       IN  /\ last.op = "indicator"
           /\ last.isActive
           /\ IndicatorKey(last) \in DOMAIN threat_indicators
           /\ ~threat_indicators[IndicatorKey(last)].isActive
           /\ threat_indicators[IndicatorKey(last)].timesSeen = 3
           /\ threat_indicators[IndicatorKey(last)].metadata # last.metadata

\* C37: an upsertPattern statement on a stored (patternType, patternName)
\* adds exactly 1 to matchCount and sets lastDetectedAt to the time of the
\* statement, and no step changes patternCriteria, isConfirmedThreat or
\* firstDetectedAt of a stored pattern, whatever the caller passes.
C37_PatternKeepsCreationFields ==
    [][/\ \A k \in DOMAIN detected_patterns :
             /\ k \in DOMAIN detected_patterns'
             /\ detected_patterns'[k].patternCriteria = detected_patterns[k].patternCriteria
             /\ detected_patterns'[k].isConfirmedThreat = detected_patterns[k].isConfirmedThreat
             /\ detected_patterns'[k].firstDetectedAt = detected_patterns[k].firstDetectedAt
       /\ \A w \in Writers :
             (/\ wpc[w] = "bound"
              /\ wcall[w].op = "pattern"
              /\ Len(executed') = Len(executed) + 1
              /\ executed'[Len(executed')] = [wcall[w] EXCEPT !.returned = PatternKey(wcall[w])]
              /\ wpc'[w] # "bound"
              /\ PatternKey(wcall[w]) \in DOMAIN detected_patterns) =>
                 /\ detected_patterns'[PatternKey(wcall[w])].matchCount =
                        detected_patterns[PatternKey(wcall[w])].matchCount + 1
                 /\ detected_patterns'[PatternKey(wcall[w])].lastDetectedAt = now]_vars

\* a pattern created with a match count of 3 was detected again by a
\* caller that counted 5 matches and a confirmed threat: it stands at 4,
\* unconfirmed, with the criteria of its creation
C37_Witness ==
    /\ executed # <<>>
    /\ LET last == executed[Len(executed)]
       IN  /\ last.op = "pattern"
           /\ last.matchCount = 5
           /\ last.isConfirmedThreat
           /\ PatternKey(last) \in DOMAIN detected_patterns
           /\ detected_patterns[PatternKey(last)].matchCount = 4
           /\ ~detected_patterns[PatternKey(last)].isConfirmedThreat
           /\ detected_patterns[PatternKey(last)].patternCriteria = "count: 3"

\* the safety check as the claim words it: the URL parses, is HTTPS
\* outside development, and its host is neither a blocked name nor a
\* private, loopback or link-local IP literal
PassesSsrfCheck(url) ==
    LET parsed == ParsedUrl(url)
    IN  /\ parsed.valid
        /\ parsed.protocol = "https:" \/ nodeEnv = "development"
        /\ parsed.hostname \notin BlockedHostnames
        /\ parsed.octets # <<>> =>
              ~(\/ parsed.octets[1] = 10
                \/ parsed.octets[1] = 172 /\ parsed.octets[2] \in 16..31
                \/ parsed.octets[1] = 192 /\ parsed.octets[2] = 168
                \/ parsed.octets[1] = 127
                \/ parsed.octets[1] = 169 /\ parsed.octets[2] = 254)

\* C38: every webhook a WebhookService holds is enabled and has a URL
\* that passes the SSRF safety check, after any construction, addWebhook
\* and removeWebhook calls.
C38_HeldWebhooksAreSafe ==
    \A i \in DOMAIN webhooks :
        /\ webhooks[i].enabled
        /\ PassesSsrfCheck(webhooks[i].url)

\* the calls of fn that have settled with an error shouldRetry rejects
RejectedRetryAt(i) ==
    /\ fnCalls[i].state = "rejected"
    /\ RejectsRetry(retryOpts, fnCalls[i].error)

\* the safety part of C39, on the history of one withRetry call
RetryIsBounded ==
    LET n == Len(fnCalls)
    IN  /\ n <= retryOpts.maxRetries
        /\ \A i \in 1..n : i < n => fnCalls[i].state = "rejected" /\ ~RejectedRetryAt(i)
        /\ (n > 0 /\ fnCalls[n].state = "pending") <=> rpc = "calling"
        /\ rpc = "resolved" =>
              /\ fnCalls[n].state = "resolved"
              /\ settled.status = "resolved"
              /\ settled.value = fnCalls[n].value
        /\ \A i \in 1..n : RejectedRetryAt(i) =>
              /\ i \notin sleeps
              /\ rpc = "rejected"
              /\ settled.error = fnCalls[i].error
        /\ \A i \in sleeps :
              /\ i < retryOpts.maxRetries
              /\ i <= n
              /\ fnCalls[i].state = "rejected"
              /\ i = n => rpc = "sleeping"
        /\ rpc = "sleeping" => n \in sleeps
        /\ (rpc = "rejected" /\ n > 0) =>
              /\ settled.status = "rejected"
              /\ fnCalls[n].state = "rejected"
              /\ settled.error = fnCalls[n].error
              /\ n = retryOpts.maxRetries \/ RejectedRetryAt(n)

\* C39: withRetry calls fn one call at a time and at most maxRetries
\* times; the first success is returned with no further call; an error
\* shouldRetry rejects is rethrown at once, with no wait and no further
\* call; it waits only between two attempts, never after the last; after
\* maxRetries failed attempts it rejects with the last attempt's error;
\* and a started call settles when every attempt settles.
C39_WithRetryIsBoundedAndSettles ==
    /\ []RetryIsBounded
    /\ (rpc \in {"calling", "sleeping"}) ~> (rpc \in {"resolved", "rejected"})

\* three attempts failed with retryable errors, with a wait after the
\* first and after the second only, and the call rejected
C39_Witness ==
    /\ rpc = "rejected"
    /\ Len(fnCalls) = 3
    /\ retryOpts.shouldRetry = "isRetryableHttpError"
    /\ sleeps = {1, 2}
    /\ settled.error = fnCalls[3].error

\* the caller is between pool.connect() and client.release()
HoldsClient(c) == clients[c].pos \in {"begin", "statements", "commit", "rollback", "finally"}

\* C40: a client acquired by initialize or trackCampaignDetection is
\* released exactly once on every path: a caller holds one unreleased
\* client exactly between connect and the finally block, and once its call
\* has returned or thrown every client it acquired has been released once
\* and none is left checked out.
C40_ClientsReleasedExactlyOnce ==
    /\ \A c \in DOMAIN clients :
          /\ HoldsClient(c) =>
                /\ clients[c].acquired = clients[c].released + 1
                /\ Cardinality(clients[c].client) = 1
                /\ clients[c].client \subseteq checkedOut
          /\ ~HoldsClient(c) =>
                /\ clients[c].acquired = clients[c].released
                /\ clients[c].client = NoClient
    /\ \A c, d \in DOMAIN clients :
          (c # d /\ HoldsClient(c) /\ HoldsClient(d)) => clients[c].client # clients[d].client
    /\ checkedOut = UNION {clients[c].client : c \in DOMAIN clients}

\* a trackCampaignDetection call that ran the schema transaction, then
\* had a query fail and ROLLBACK fail as well, has thrown with both of its
\* clients released, and the pool is whole
C40_Witness ==
    /\ checkedOut = {}
    /\ \E c \in DOMAIN clients :
          /\ clients[c].op = "trackCampaignDetection"
          /\ clients[c].pos = "thrown"
          /\ clients[c].error = "rollback"
          /\ clients[c].acquired = 2
          /\ clients[c].released = 2

====
